---- MODULE Spec2Model ----
(***************************************************************************)
(* Fleet document pipeline (jmm-1987/iara_trucks).                         *)
(*                                                                         *)
(* The persistent store (vehicle, document, fuel_entry, expense_entry,     *)
(* reminder tables) and the two execution contexts that run                *)
(* process_document against it: a request handler ("web": upload,          *)
(* reprocess, manual reminder creation) and the APScheduler job ("sweep":  *)
(* process_pending_documents followed by update_reminder_statuses).        *)
(*                                                                         *)
(* Every context owns a SQLAlchemy session.  What a session has loaded     *)
(* (loaded) and the unit of work it has flushed but not committed (uow)    *)
(* are private to it; the tables below hold committed rows only.  A row id *)
(* is its index in the table; 0 stands for SQL NULL in an id or date       *)
(* column, and for an absent (None or zero, both falsy) amount.            *)
(***************************************************************************)
EXTENDS Integers, Sequences, FiniteSets, TLC

\* ------------------------------------------------------------------ bounds
MaxDocs == 2
MaxReprocess == 1
MaxRows == 3
MaxDate == 2

\* the longest amount text enumerated
MaxAmountLen == 7

\* the longest plate text enumerated
MaxPlateLen == 6

\* ------------------------------------------------------- program constants
MinPlateLen == 6
SweepLimit == 10

\* date.today() as update_reminder_statuses reads it: dates before it are
\* overdue, dates from it on are not.
today == 2

\* handle_text_message: the least length of a plate typed in the chat
PlateTextLen == 6

Workers == {"web", "sweep"}

\* Characters plates are written with; " " and "\t" are whitespace.
Whitespace == {" ", "\t"}

\* DocumentStatus
PENDING == "pending"
PROCESSED == "processed"
ERROR == "error"

\* Document types the vision model is taken to answer with.
FUEL_TICKET == "fuel_ticket"
DocTypes == {"fuel_ticket", "insurance_policy"}

\* error_message / return message values
NoMessage == "NULL"
MsgException == "str(e)"
MsgCommit == "str(e) of the commit"
MsgFlush == "str(e) of the flush"
MsgAlready == "Ya estaba procesado"
MsgOk == "Documento procesado correctamente"

VARIABLES vehicle, document, fuel_entry, expense_entry, reminder,
          pc, cur, loaded, uow, result, batch, reprocessed, found, calc, norm,
          session, buttons, kilometers, reply

vars == <<vehicle, document, fuel_entry, expense_entry, reminder,
          pc, cur, loaded, uow, result, batch, reprocessed, found, calc, norm,
          session, buttons, kilometers, reply>>

tables == <<vehicle, document, fuel_entry, expense_entry, reminder>>

\* The chat with the bot: the TelegramSession row of the user, the vehicle
\* buttons the bot has shown so far (they stay in the chat and can be
\* pressed at any later time), FuelEntry.kilometers of the entries that
\* have one, and the bot's last message.
chat == <<session, buttons, kilometers, reply>>

\* ------------------------------------------------------------ pure helpers

\* str.upper on the characters used here
Upper(c) ==
    CASE c = "a" -> "A"
      [] c = "b" -> "B"
      [] c = "c" -> "C"
      [] c = "s" -> "S"
      [] c = "k" -> "K"
      [] c = "i" -> "I"
      [] c = "p" -> "P"
      [] OTHER -> c

RECURSIVE LStrip(_)
LStrip(s) ==
    IF s # <<>> /\ Head(s) \in Whitespace THEN LStrip(Tail(s)) ELSE s

RECURSIVE RStrip(_)
RStrip(s) ==
    IF s # <<>> /\ s[Len(s)] \in Whitespace
    THEN RStrip(SubSeq(s, 1, Len(s) - 1))
    ELSE s

\* str.strip()
Strip(s) == RStrip(LStrip(s))

\* str.replace(" ", "")
RECURSIVE RemoveSpaces(_)
RemoveSpaces(s) ==
    IF s = <<>> THEN <<>>
    ELSE IF Head(s) = " " THEN RemoveSpaces(Tail(s))
    ELSE <<Head(s)>> \o RemoveSpaces(Tail(s))

UpperAll(s) == [i \in 1..Len(s) |-> Upper(s[i])]

\* normalize_plate; <<>> is None (and the empty string, equally falsy)
normalize_plate(plate) ==
    IF plate = <<>> THEN <<>>
    ELSE LET s == RemoveSpaces(UpperAll(Strip(plate)))
         IN IF Len(s) >= MinPlateLen THEN s ELSE <<>>

\* Plates as the vision model may guess them, and as stored.
Plate1 == <<"1", "2", "3", "4", "A", "B", "C">>
Plates == {Plate1}
RawGuesses == { <<>>,
                <<"1", "2", "3", "4", " ", "a", "b", "c">>,
                <<"A", "B", "1">> }

\* A plate of no vehicle of the fleet, as stored and as read off a document.
Plate2 == <<"5", "6", "7", "8", "X", "Y", "Z">>
Guess2 == <<"5", "6", "7", "8", " ", "X", "Y", "Z">>

\* normalize_plate over every plate text that reaches it in the model
NormalPlate ==
    [p \in RawGuesses \cup Plates \cup {Plate2, Guess2} |-> normalize_plate(p)]

\* What analyze_document_image returns on success, reduced to the fields the
\* derivation reads: amounts and fuel figures by presence (1) or absence (0).
\* A fuel ticket carries no due date; other documents carry no fuel figures
\* (the derivation does not read them).
Extractions ==
    { e \in [doc_type : DocTypes, guess : RawGuesses, date_due : 0..MaxDate,
              total : 0..1, liters : 0..1, price : 0..1] :
        /\ e.doc_type = FUEL_TICKET => e.date_due = 0
        /\ e.doc_type # FUEL_TICKET => e.liters = 0 /\ e.price = 0 }

\* The extractions of complete documents: the total is read, and a fuel
\* ticket has its liters.
CompleteExtractions ==
    { e \in Extractions :
        /\ e.total = 1
        /\ e.doc_type = FUEL_TICKET => e.liters = 1 /\ e.price = 0 }

\* The extractions of complete documents that carry a due date and no plate.
DueExtractions ==
    { e \in CompleteExtractions : e.date_due # 0 /\ e.guess = <<>> }

\* DocumentType: every document type the vision model is asked to choose from
AllDocTypes ==
    {"fuel_ticket", "insurance_policy", "itv", "tachograph",
     "workshop_invoice", "tires_invoice", "other"}

\* Extractions of every document type, with no plate read off the document.
TypedExtractions ==
    { e \in [doc_type : AllDocTypes, guess : {<<>>}, date_due : 0..MaxDate,
              total : 0..1, liters : 0..1, price : {0}] :
        /\ e.doc_type = FUEL_TICKET => e.date_due = 0
        /\ e.doc_type # FUEL_TICKET => e.liters = 0 }

\* Extractions that read the plate Guess2 off the document.
RebindExtractions ==
    { e \in [doc_type : DocTypes, guess : {Guess2}, date_due : 0..MaxDate,
              total : 0..1, liters : 0..1, price : {0}] :
        /\ e.doc_type = FUEL_TICKET => e.date_due = 0
        /\ e.doc_type # FUEL_TICKET => e.liters = 0 }

\* DOC_TYPE_TO_EXPENSE_CATEGORY.get(doc_type); "NULL" when unmapped
DOC_TYPE_TO_EXPENSE_CATEGORY(t) ==
    CASE t = "invoice" -> "other"
      [] t = "delivery_note" -> "other"
      [] t = "insurance_policy" -> "insurance"
      [] t = "itv" -> "itv"
      [] t = "tachograph" -> "itv"
      [] t = "workshop_invoice" -> "workshop"
      [] t = "tires_invoice" -> "tires"
      [] OTHER -> "NULL"

\* kind_map.get(doc_type) of reminders_service; "NULL" when unmapped
kind_map(t) ==
    CASE t = "insurance_policy" -> "insurance"
      [] t = "insurance" -> "insurance"
      [] t = "itv" -> "itv"
      [] t = "tachograph" -> "tachograph"
      [] OTHER -> "NULL"

\* Vehicle.query.filter_by(plate=p).first(): the id, 0 when there is none
VehicleByPlateBlind(p) == 0

VehicleByPlate(p) ==
    IF \E i \in 1..Len(vehicle) : vehicle[i] = p
    THEN CHOOSE i \in 1..Len(vehicle) :
            vehicle[i] = p /\ \A j \in 1..(i - 1) : vehicle[j] # p
    ELSE 0

\* Reminder.query.filter_by(vehicle_id, kind, document_id, status="active")
ActiveReminders(v, k, d) ==
    { i \in 1..Len(reminder) :
        /\ reminder[i].vehicle_id = v
        /\ reminder[i].kind = k
        /\ reminder[i].document_id = d
        /\ reminder[i].status = "active" }

NoResult == [kind |-> "none", success |-> FALSE, message |-> NoMessage]
Returned(ok, msg) == [kind |-> "returned", success |-> ok, message |-> msg]
Raised(msg) == [kind |-> "raised", success |-> FALSE, message |-> msg]

NoDoc ==
    [vehicle_id |-> 0, status |-> PENDING, doc_type |-> "NULL", due_date |-> 0,
     total_amount |-> 0, extracted_json |-> FALSE, processed_at |-> FALSE,
     error_message |-> NoMessage, user_id |-> 0]

NoUow ==
    [doc |-> NoDoc, new_plate |-> <<>>, fuel |-> FALSE, expense |-> "NULL",
     rem_kind |-> "NULL", rem_due |-> 0]

\* What the lookup of a manual reminder creation has in hand: the id and
\* due date of the active reminder it found, zeros when it found none.
NoFound == [id |-> 0, due_date |-> 0]

\* None, among amounts
NULL == -1

\* Amounts are Decimals; here they are whole numbers of 0.0001 EUR (liters
\* are whole liters, a price is 0.0001 EUR per liter).  bool(x) of Python:
\* None and zero are falsy.
Truthy(x) == x # NULL /\ x # 0

\* a or b
Or(a, b) == IF Truthy(a) THEN a ELSE b

\* total / Decimal("1.21"): the quotient rounded half-even at the last place
\* kept (121 is odd: there is no tie).
Div121(t) ==
    LET n == t * 100
        q == n \div 121
        r == n % 121
    IN  IF 2 * r > 121 THEN q + 1 ELSE q

\* What the vision model may read as amounts.total, amounts.subtotal,
\* amounts.tax, fuel.liters, fuel.price_per_liter and fuel.total_amount:
\* 45.99 and 121.00 = 100.00 + 21.00 EUR, 30 l at 1.45 EUR.
TotalValues == {NULL, 0, 459900, 1210000}
SubtotalValues == {NULL, 1000000}
TaxValues == {NULL, 210000}

NoFuel == [liters |-> NULL, price_per_liter |-> NULL, total_amount |-> NULL]
NoDocAmounts ==
    [subtotal_amount |-> NULL, tax_amount |-> NULL, total_amount |-> NULL]
NoEntry ==
    [made |-> FALSE, liters |-> NULL, price_per_liter |-> NULL,
     subtotal_amount |-> NULL, tax_amount |-> NULL, total_amount |-> NULL]

\* The amounts of one run of process_document: the extraction's amounts and
\* fuel members, whether the document has a vehicle once the plate is
\* resolved, the document's amount columns and the FuelEntry built.
NoCalc ==
    [stage |-> "none", doc_type |-> "NULL", vehicle |-> FALSE,
     amounts |-> [subtotal |-> NULL, tax |-> NULL, total |-> NULL],
     fuel |-> NoFuel, doc |-> NoDocAmounts,
     entry |-> NoEntry, expense |-> "NULL"]

\* A TelegramSession as get_or_create_session inserts it: no pending
\* action, vehicle or file (0 and FALSE are None), no current vehicle.
\* The user the chat of the model belongs to (user_id of the handlers); a
\* document uploaded on the web has no user.
ChatUser == 1

NoSession ==
    [pending_action |-> "NULL", pending_vehicle_id |-> 0,
     pending_file |-> FALSE, current_vehicle_id |-> 0]

\* Python values as the normalisers meet them: None, a str, an int (kind
\* "int", its value in mant) and the Decimal they return (sign, digits and
\* the number of decimal places).
None == [kind |-> "none", text |-> <<>>, neg |-> FALSE, mant |-> 0, scale |-> 0]
Str(t) == [kind |-> "str", text |-> t, neg |-> FALSE, mant |-> 0, scale |-> 0]
PyDecimal(neg, mant, scale) ==
    [kind |-> "decimal", text |-> <<>>, neg |-> neg, mant |-> mant,
     scale |-> scale]

\* The call of a normaliser under way: the function, its argument (and the
\* known plate of validate_and_enrich), what it returned, and what it
\* returned when given that again.
NoNorm ==
    [fn |-> "none", arg |-> None, known |-> None, out |-> None,
     again |-> None, stage |-> "none", pad |-> FALSE]

InitChat ==
    /\ session = NoSession
    /\ buttons = {}
    /\ kilometers = <<>>
    /\ reply = "NULL"

\* --------------------------------------------------------------------- Init
Init ==
    /\ vehicle = <<>>
    /\ document = <<>>
    /\ fuel_entry = <<>>
    /\ expense_entry = <<>>
    /\ reminder = <<>>
    /\ pc = [w \in Workers |-> "idle"]
    /\ cur = [w \in Workers |-> 0]
    /\ loaded = [w \in Workers |-> NoDoc]
    /\ uow = [w \in Workers |-> NoUow]
    /\ result = [w \in Workers |-> NoResult]
    /\ batch = {}
    /\ reprocessed = 0
    /\ found = NoFound
    /\ calc = NoCalc
    /\ InitChat
    /\ norm = NoNorm

\* ------------------------------------------------------ session mechanics

\* The UPDATE a flush issues carries the columns whose value the session
\* changed with respect to what it had loaded (old); processed_at is a fresh
\* utcnow() and extracted_json a fresh serialisation, written whenever set.
FlushDocWhole(stored, old, new) == new

FlushDoc(stored, old, new) ==
    [f \in DOMAIN new |->
        IF f \in {"processed_at", "extracted_json"} /\ new[f] THEN new[f]
        ELSE IF new[f] # old[f] THEN new[f]
        ELSE stored[f]]

Idle(w) == pc[w] = "idle"

\* ------------------------------------------------------------ web handlers

\* vehicle_create (web form) / a plate typed in the chat: look up, else insert
CreateVehicle(p) ==
    /\ Idle("web")
    /\ VehicleByPlate(p) = 0
    /\ vehicle' = Append(vehicle, p)
    /\ UNCHANGED <<document, fuel_entry, expense_entry, reminder,
                   pc, cur, loaded, uow, result, batch, reprocessed, found, calc, norm, chat>>

\* document_upload / process_incoming_document up to the commit of the new
\* pending Document; process_document(doc.id) follows.
Upload(v) ==
    /\ Idle("web")
    /\ Len(document) < MaxDocs
    /\ document' = Append(document, [NoDoc EXCEPT !.vehicle_id = v])
    /\ cur' = [cur EXCEPT !["web"] = Len(document) + 1]
    /\ pc' = [pc EXCEPT !["web"] = "begin"]
    /\ UNCHANGED <<vehicle, fuel_entry, expense_entry, reminder,
                   loaded, uow, result, batch, reprocessed, found, calc, norm, chat>>

\* document_reprocess up to its commit; process_document(did) follows.
Reprocess(d) ==
    /\ Idle("web")
    /\ reprocessed < MaxReprocess
    /\ reprocessed' = reprocessed + 1
    /\ document' = [document EXCEPT ![d] =
                      [@ EXCEPT !.status = PENDING, !.error_message = NoMessage,
                                !.extracted_json = FALSE, !.processed_at = FALSE]]
    /\ cur' = [cur EXCEPT !["web"] = d]
    /\ pc' = [pc EXCEPT !["web"] = "begin"]
    /\ UNCHANGED <<vehicle, fuel_entry, expense_entry, reminder,
                   loaded, uow, result, batch, found, calc, norm, chat>>

\* --------------------------------------------------------- process_document

\* Where control goes when process_document hands r back to its caller: the
\* web handler ends; the sweep logs a return and catches an exception.
AfterCall(w, r) ==
    IF w = "sweep" THEN (IF r.kind = "raised" THEN "except" ELSE "loop")
    ELSE "respond"

\* process_document, lines 45-49: load the document, return at once when it
\* is already processed.
ShortCircuitNever(doc) == FALSE

ShortCircuit(doc) == doc.status = PROCESSED

Begin(w) ==
    /\ pc[w] = "begin"
    /\ IF ShortCircuit(document[cur[w]])
       THEN /\ result' = [result EXCEPT ![w] = Returned(TRUE, MsgAlready)]
            /\ pc' = [pc EXCEPT ![w] = AfterCall(w, Returned(TRUE, MsgAlready))]
            /\ UNCHANGED loaded
       ELSE /\ loaded' = [loaded EXCEPT ![w] = document[cur[w]]]
            /\ pc' = [pc EXCEPT ![w] = "extract"]
            /\ UNCHANGED result
    /\ UNCHANGED <<tables, cur, uow, batch, reprocessed, found, calc, norm, chat>>

\* The handler answers (flash and redirect, a chat message, or the 500 page
\* when process_document raised) and the request ends.
Respond ==
    /\ pc["web"] = "respond"
    /\ pc' = [pc EXCEPT !["web"] = "idle"]
    /\ cur' = [cur EXCEPT !["web"] = 0]
    /\ result' = [result EXCEPT !["web"] = NoResult]
    /\ UNCHANGED <<tables, loaded, uow, batch, reprocessed, found, calc, norm, chat>>

\* The sweep logs what process_document returned and goes round the loop.
SweepLog ==
    /\ pc["sweep"] = "loop"
    /\ pc' = [pc EXCEPT !["sweep"] = "next"]
    /\ cur' = [cur EXCEPT !["sweep"] = 0]
    /\ result' = [result EXCEPT !["sweep"] = NoResult]
    /\ UNCHANGED <<tables, loaded, uow, batch, reprocessed, found, calc, norm, chat>>

\* process_document, lines 51-81: the stored file is missing or unreadable,
\* or analyze_document_image raises.
ErrorDoc(doc, msg) == [doc EXCEPT !.status = ERROR, !.error_message = msg]

ExtractFail(w, msg) ==
    /\ pc[w] = "extract"
    /\ document' = [document EXCEPT ![cur[w]] =
                      FlushDoc(@, loaded[w], ErrorDoc(loaded[w], msg))]
    /\ result' = [result EXCEPT ![w] = Returned(FALSE, msg)]
    /\ pc' = [pc EXCEPT ![w] = AfterCall(w, Returned(FALSE, msg))]
    /\ loaded' = [loaded EXCEPT ![w] = NoDoc]
    /\ UNCHANGED <<vehicle, fuel_entry, expense_entry, reminder,
                   cur, uow, batch, reprocessed, found, calc, norm, chat>>

\* process_document, line 83: validate_and_enrich is outside every try; an
\* extraction whose amounts or fuel member is not a mapping makes it raise.
ExtractMalformed(w) ==
    /\ pc[w] = "extract"
    /\ result' = [result EXCEPT ![w] = Raised(MsgException)]
    /\ pc' = [pc EXCEPT ![w] = AfterCall(w, Raised(MsgException))]
    /\ loaded' = [loaded EXCEPT ![w] = NoDoc]
    /\ UNCHANGED <<tables, cur, uow, batch, reprocessed, found, calc, norm, chat>>

\* validate_and_enrich, "Matricula": a known plate overrides the guess
EnrichedGuess(vehicle_plate, guess) ==
    IF vehicle_plate # <<>> THEN NormalPlate[vehicle_plate]
    ELSE IF guess # <<>> THEN NormalPlate[guess]
    ELSE guess

\* process_document, lines 244-249: is a FuelEntry built?  has_vehicle is
\* the truth of doc.vehicle_id after vehicle resolution.
FuelEntryDue(doc_type, has_vehicle, e) ==
    /\ doc_type = FUEL_TICKET
    /\ has_vehicle
    /\ e.liters = 1
    /\ (e.total = 1 \/ e.price = 1)

\* process_document, lines 299-301: the category of the ExpenseEntry built,
\* "NULL" when none is.
ExpenseEntryDue(doc_type, has_vehicle, total_amount) ==
    IF has_vehicle /\ total_amount # 0
    THEN DOC_TYPE_TO_EXPENSE_CATEGORY(doc_type)
    ELSE "NULL"

\* create_reminder_from_document, lines 17-36: the kind of the reminder the
\* document calls for, "NULL" when it calls for none.
ReminderKindAlways(doc_type, has_vehicle, due) == kind_map(doc_type)

ReminderKindDue(doc_type, has_vehicle, due) ==
    IF due = 0 \/ ~has_vehicle THEN "NULL" ELSE kind_map(doc_type)

\* process_document, lines 83-312, for the extraction e: what the run is
\* about to write.  Its first flush (line 99 or 233) takes the store's write
\* lock, which it keeps until its commit; the writes are gathered in uow[w]
\* and reach the tables with the commit.  The vehicle lookup of line 92
\* precedes the flush and sees the committed rows.  A vehicle the run inserts
\* has its id from the flush; here it is named by new_plate until the commit
\* appends it.
ExtractOk(w, e) ==
    /\ pc[w] = "extract"
    /\ LET old == loaded[w]
           vehicle_plate == IF old.vehicle_id # 0
                            THEN vehicle[old.vehicle_id] ELSE <<>>
           guess == EnrichedGuess(vehicle_plate, e.guess)
           extracted_plate == NormalPlate[guess]
           by_plate == IF extracted_plate # <<>>
                    THEN VehicleByPlate(extracted_plate) ELSE 0
           new_plate == IF extracted_plate # <<>> /\ by_plate = 0
                        THEN extracted_plate ELSE <<>>
           vid == IF extracted_plate # <<>> THEN by_plate ELSE old.vehicle_id
           has_vehicle == vid # 0 \/ new_plate # <<>>
           doc == [old EXCEPT !.vehicle_id = vid,
                              !.doc_type = e.doc_type,
                              !.due_date = e.date_due,
                              !.total_amount = e.total,
                              !.extracted_json = TRUE,
                              !.processed_at = TRUE,
                              !.status = PROCESSED,
                              !.error_message = NoMessage]
       IN  uow' = [uow EXCEPT ![w] =
                     [doc |-> doc, new_plate |-> new_plate,
                      fuel |-> FuelEntryDue(e.doc_type, has_vehicle, e),
                      expense |-> ExpenseEntryDue(e.doc_type, has_vehicle, e.total),
                      rem_kind |-> ReminderKindDue(e.doc_type, has_vehicle,
                                                   e.date_due),
                      rem_due |-> e.date_due]]
    /\ pc' = [pc EXCEPT ![w] = "commit"]
    /\ UNCHANGED <<tables, cur, loaded, result, batch, reprocessed, found, calc, norm, chat>>

\* create_reminder_from_document, lines 62-85, as the run of uow[w] meets
\* it: under the write lock, so on the committed rows.  The ways it can go:
\* nothing to do, a new reminder, or the first active reminder of the triple
\* (in no stated order) with its date updated or kept.
ReminderWriteInsert(w) ==
    IF uow[w].rem_kind = "NULL" THEN {[mode |-> "none", id |-> 0]}
    ELSE {[mode |-> "insert", id |-> 0]}

ReminderWrite(w) ==
    LET u == uow[w]
        existing == IF u.new_plate # <<>> THEN {}
                    ELSE ActiveReminders(u.doc.vehicle_id, u.rem_kind, cur[w])
    IN  IF u.rem_kind = "NULL" THEN {[mode |-> "none", id |-> 0]}
        ELSE IF existing = {} THEN {[mode |-> "insert", id |-> 0]}
        ELSE { [mode |-> IF reminder[i].due_date # u.rem_due
                         THEN "update" ELSE "keep",
                id |-> i] : i \in existing }

\* What process_document hands back when the commit of its unit of work
\* fails: update_reminders_from_extraction catches the failure of its own
\* commit (a reminder was returned to it), rolls back and lets the run end
\* in success; the commit inside create_reminder_from_document (line 74) and
\* the final commit (line 317) are not guarded.
CommitFailure(mode) ==
    IF mode \in {"insert", "keep"} THEN Returned(TRUE, MsgOk)
    ELSE Raised(MsgCommit)

\* The rows a successful commit of uow[w] leaves in the tables, the reminder
\* going the way r.
CommitRows(w, r) ==
    LET u == uow[w]
        d == cur[w]
        vid == IF u.new_plate # <<>> THEN Len(vehicle) + 1 ELSE u.doc.vehicle_id
    IN  /\ vehicle' = IF u.new_plate # <<>>
                      THEN Append(vehicle, u.new_plate) ELSE vehicle
        /\ document' = [document EXCEPT ![d] =
                          FlushDoc(@, loaded[w], [u.doc EXCEPT !.vehicle_id = vid])]
        /\ fuel_entry' = IF u.fuel
                         THEN Append(fuel_entry,
                                     [document_id |-> d, vehicle_id |-> vid])
                         ELSE fuel_entry
        /\ expense_entry' = IF u.expense # "NULL"
                            THEN Append(expense_entry,
                                        [document_id |-> d, vehicle_id |-> vid,
                                         category |-> u.expense])
                            ELSE expense_entry
        /\ reminder' =
             CASE r.mode = "insert" ->
                    Append(reminder,
                           [vehicle_id |-> vid, kind |-> u.rem_kind,
                            due_date |-> u.rem_due, status |-> "active",
                            document_id |-> d])
               [] r.mode = "update" ->
                    [reminder EXCEPT ![r.id].due_date = u.rem_due]
               [] OTHER -> reminder

\* The commit that carries the run's writes (line 74, 96 or 317, whichever
\* comes first) succeeds: document, vehicle and derived rows become visible
\* together.
CommitOk(w) ==
    /\ pc[w] = "commit"
    /\ uow[w].new_plate # <<>> => VehicleByPlate(uow[w].new_plate) = 0
    /\ \E r \in ReminderWrite(w) : CommitRows(w, r)
    /\ result' = [result EXCEPT ![w] = Returned(TRUE, MsgOk)]
    /\ pc' = [pc EXCEPT ![w] = AfterCall(w, Returned(TRUE, MsgOk))]
    /\ uow' = [uow EXCEPT ![w] = NoUow]
    /\ loaded' = [loaded EXCEPT ![w] = NoDoc]
    /\ UNCHANGED <<cur, batch, reprocessed, found, calc, norm, chat>>

\* The commit fails (the store refuses it) and the session is rolled back:
\* nothing of the run is kept.
CommitFail(w) ==
    /\ pc[w] = "commit"
    /\ \E r \in ReminderWrite(w) :
         /\ result' = [result EXCEPT ![w] = CommitFailure(r.mode)]
         /\ pc' = [pc EXCEPT ![w] = AfterCall(w, CommitFailure(r.mode))]
    /\ uow' = [uow EXCEPT ![w] = NoUow]
    /\ loaded' = [loaded EXCEPT ![w] = NoDoc]
    /\ UNCHANGED <<tables, cur, batch, reprocessed, found, calc, norm, chat>>

\* The plate the run inserted was committed by someone else meanwhile:
\* vehicle.plate is unique, the INSERT of line 98-99 raises out of the run
\* and leaves the session waiting for a rollback.
CommitConflict(w) ==
    /\ pc[w] = "commit"
    /\ uow[w].new_plate # <<>>
    /\ VehicleByPlate(uow[w].new_plate) # 0
    /\ result' = [result EXCEPT ![w] = Raised(MsgFlush)]
    /\ pc' = [pc EXCEPT ![w] = AfterCall(w, Raised(MsgFlush))]
    /\ uow' = [uow EXCEPT ![w] = NoUow]
    /\ loaded' = [loaded EXCEPT ![w] = NoDoc]
    /\ UNCHANGED <<tables, cur, batch, reprocessed, found, calc, norm, chat>>

\* ---------------------------------------------------------------- the sweep

UnprocessedDocs == { d \in 1..Len(document) : document[d].status # PROCESSED }

PendingDocs == { d \in 1..Len(document) : document[d].status = PENDING }

\* process_pending_documents, line 25: up to SweepLimit pending documents,
\* in no stated order.  The rows the query returns are in the session: the
\* first document handled is used as the query loaded it.
SweepStart ==
    /\ Idle("sweep")
    /\ \E S \in SUBSET PendingDocs :
         /\ Cardinality(S) = (IF SweepLimit <= Cardinality(PendingDocs)
                              THEN SweepLimit
                              ELSE Cardinality(PendingDocs))
         /\ IF S = {}
            THEN /\ pc' = [pc EXCEPT !["sweep"] = "next"]
                 /\ batch' = {}
                 /\ UNCHANGED <<cur, loaded>>
            ELSE \E d \in S :
                   /\ cur' = [cur EXCEPT !["sweep"] = d]
                   /\ loaded' = [loaded EXCEPT !["sweep"] = document[d]]
                   /\ batch' = S \ {d}
                   /\ pc' = [pc EXCEPT !["sweep"] = "extract"]
    /\ UNCHANGED <<tables, uow, result, reprocessed, found, calc, norm, chat>>

\* The loop goes on to another document of the batch; every commit or
\* rollback of the session has expired its rows, so process_document loads
\* the document anew.
SweepNext ==
    /\ pc["sweep"] = "next"
    /\ \E d \in batch :
         /\ cur' = [cur EXCEPT !["sweep"] = d]
         /\ batch' = batch \ {d}
         /\ pc' = [pc EXCEPT !["sweep"] = "begin"]
    /\ UNCHANGED <<tables, loaded, uow, result, reprocessed, found, calc, norm, chat>>

\* process_pending_documents, lines 29-33: process_document raised; the
\* handler marks the document and commits.  After a failed flush the session
\* takes no commit before a rollback, so the handler cannot end this way.
SweepExcept ==
    /\ pc["sweep"] = "except"
    /\ result["sweep"].message # MsgFlush
    /\ document' = [document EXCEPT ![cur["sweep"]] =
                      ErrorDoc(@, result["sweep"].message)]
    /\ pc' = [pc EXCEPT !["sweep"] = "next"]
    /\ cur' = [cur EXCEPT !["sweep"] = 0]
    /\ result' = [result EXCEPT !["sweep"] = NoResult]
    /\ UNCHANGED <<vehicle, fuel_entry, expense_entry, reminder,
                   loaded, uow, batch, reprocessed, found, calc, norm, chat>>

\* process_pending_documents, line 33: the handler's own commit raises (the
\* session waits for a rollback, or the store that refused the run's commit
\* refuses this one too).  Nothing catches it: the job ends here, the rest
\* of the batch and update_reminder_statuses are left for the next run.
SweepAbort ==
    /\ pc["sweep"] = "except"
    /\ result["sweep"].message \in {MsgFlush, MsgCommit}
    /\ pc' = [pc EXCEPT !["sweep"] = "idle"]
    /\ cur' = [cur EXCEPT !["sweep"] = 0]
    /\ result' = [result EXCEPT !["sweep"] = NoResult]
    /\ batch' = {}
    /\ UNCHANGED <<tables, loaded, uow, reprocessed, found, calc, norm, chat>>

\* update_reminder_statuses: the status of reminder r after the sweep
ExpiredThrough(r) ==
    IF r.due_date <= today /\ r.status = "active"
    THEN [r EXCEPT !.status = "expired"]
    ELSE r

Expired(r) ==
    IF r.due_date < today /\ r.status = "active"
    THEN [r EXCEPT !.status = "expired"]
    ELSE r

\* The job runs it once the batch is done.
update_reminder_statuses ==
    /\ pc["sweep"] = "next"
    /\ batch = {}
    /\ reminder' = [i \in 1..Len(reminder) |-> Expired(reminder[i])]
    /\ pc' = [pc EXCEPT !["sweep"] = "idle"]
    /\ UNCHANGED <<vehicle, document, fuel_entry, expense_entry,
                   cur, loaded, uow, result, batch, reprocessed, found, calc, norm, chat>>

\* ------------------------------------------------- manual reminder creation

\* document_create_reminder and create_reminder_from_processed_document,
\* lines 109-130: the checks and the lookup of the active reminder of the
\* triple, read outside any write transaction.
ManualLookup(d) ==
    /\ Idle("web")
    /\ Len(reminder) < MaxRows
    /\ LET doc == document[d]
           kind == kind_map(doc.doc_type)
           existing == ActiveReminders(doc.vehicle_id, kind, d)
       IN  /\ doc.due_date # 0
           /\ doc.vehicle_id # 0
           /\ kind # "NULL"
           /\ IF existing # {}
              THEN \E i \in existing :
                     found' = [id |-> i, due_date |-> reminder[i].due_date]
              ELSE found' = NoFound
    /\ loaded' = [loaded EXCEPT !["web"] = document[d]]
    /\ cur' = [cur EXCEPT !["web"] = d]
    /\ pc' = [pc EXCEPT !["web"] = "remind"]
    /\ UNCHANGED <<tables, uow, result, batch, reprocessed, calc, norm, chat>>

\* create_reminder_from_processed_document, lines 132-149: the reminder found
\* takes the document's due date when it differs, or a new one is inserted;
\* then the commit.
ManualWrite ==
    /\ pc["web"] = "remind"
    /\ LET doc == loaded["web"]
       IN  reminder' =
             IF found.id # 0
             THEN IF found.due_date # doc.due_date
                  THEN [reminder EXCEPT ![found.id].due_date = doc.due_date]
                  ELSE reminder
             ELSE Append(reminder,
                         [vehicle_id |-> doc.vehicle_id,
                          kind |-> kind_map(doc.doc_type),
                          due_date |-> doc.due_date, status |-> "active",
                          document_id |-> cur["web"]])
    /\ pc' = [pc EXCEPT !["web"] = "idle"]
    /\ cur' = [cur EXCEPT !["web"] = 0]
    /\ loaded' = [loaded EXCEPT !["web"] = NoDoc]
    /\ found' = NoFound
    /\ UNCHANGED <<vehicle, document, fuel_entry, expense_entry,
                   uow, result, batch, reprocessed, calc, norm, chat>>

\* --------------------------------------------------------------------- Next

\* A session that is under way takes its next step; E is what the vision
\* model may answer.
Step(E) ==
    \/ \E w \in Workers : Begin(w)
    \/ \E w \in Workers : ExtractFail(w, "Archivo no encontrado")
    \/ \E w \in Workers : ExtractFail(w, MsgException)
    \/ \E w \in Workers : ExtractMalformed(w)
    \/ \E w \in Workers, e \in E : ExtractOk(w, e)
    \/ \E w \in Workers : CommitOk(w)
    \/ \E w \in Workers : CommitFail(w)
    \/ Respond
    \/ ManualWrite
    \/ SweepLog
    \/ SweepNext
    \/ SweepExcept
    \/ SweepAbort
    \/ update_reminder_statuses

\* Requests and sweeps one after the other: a request is served while the
\* scheduler job is not running, and the job runs between requests.
Next ==
    \/ \E p \in Plates : Idle("sweep") /\ CreateVehicle(p)
    \/ \E v \in 0..Len(vehicle) : Idle("sweep") /\ Upload(v)
    \/ \E d \in 1..Len(document) : Idle("sweep") /\ Reprocess(d)
    \/ \E d \in 1..Len(document) : Idle("sweep") /\ ManualLookup(d)
    \/ Idle("web") /\ SweepStart
    \/ Step(Extractions)

Spec == Init /\ [][Next]_vars

\* Requests served while the scheduler job runs: the request thread and the
\* scheduler thread interleave at every step.  The documents are complete
\* ones.
NextConc ==
    \/ \E p \in Plates : CreateVehicle(p)
    \/ \E v \in 0..Len(vehicle) : Upload(v)
    \/ \E d \in 1..Len(document) : ManualLookup(d)
    \/ SweepStart
    \/ \E w \in Workers : CommitConflict(w)
    \/ Step(CompleteExtractions)

SpecConc == Init /\ [][NextConc]_vars

\* Reprocess requests as well, served while the scheduler job runs, on
\* documents that carry a due date and leave the vehicle as the upload
\* named it.
NextDue ==
    \/ \E p \in Plates : CreateVehicle(p)
    \/ \E v \in 0..Len(vehicle) : Upload(v)
    \/ \E d \in 1..Len(document) : Reprocess(d)
    \/ \E d \in 1..Len(document) : ManualLookup(d)
    \/ SweepStart
    \/ Step(DueExtractions)

SpecDue == Init /\ [][NextDue]_vars

\* Uploads through the web form, one request at a time and no scheduler
\* job: the upload's own processing run, to its commit.
Upload1(E) ==
    \/ \E p \in Plates : CreateVehicle(p)
    \/ \E v \in 0..Len(vehicle) : Upload(v)
    \/ Begin("web")
    \/ \E e \in E : ExtractOk("web", e)
    \/ CommitOk("web")
    \/ Respond

\* Documents of every type, none showing a plate.
SpecTyped == Init /\ [][Upload1(TypedExtractions)]_vars

\* Documents that show the plate Guess2.
SpecRebind == Init /\ [][Upload1(RebindExtractions)]_vars

\* _normalize_response of a JSON value that is not an object (a list, a
\* string, a number): {"doc_type": "other", "confidence": 0}, so no plate,
\* no date, no amounts and no fuel figures.
NotAnObject ==
    [doc_type |-> "other", guess |-> <<>>, date_due |-> 0, total |-> 0,
     liters |-> 0, price |-> 0]

\* Uploads through the web form whose vision answer is not what was asked
\* for: a text that is not JSON (json.loads raises, analyze_document_image
\* raises ValueError), a JSON value that is not an object, and an object
\* whose members have the wrong shape (validate_and_enrich raises).
NextVision ==
    \/ \E p \in Plates : CreateVehicle(p)
    \/ \E v \in 0..Len(vehicle) : Upload(v)
    \/ Begin("web")
    \/ ExtractFail("web", MsgException)
    \/ ExtractOk("web", NotAnObject)
    \/ ExtractMalformed("web")
    \/ CommitOk("web")
    \/ Respond

SpecVision == Init /\ [][NextVision]_vars

\* ------------------------------------------------------------ the amounts

\* The amounts a document shows agree with each other: a subtotal or a tax
\* printed next to a total are those of that total, and the fuel total is
\* the document's total.
ShownAmounts ==
    { c \in [stage : {"extracted"}, doc_type : DocTypes, vehicle : BOOLEAN,
              amounts : [subtotal : SubtotalValues, tax : TaxValues,
                         total : TotalValues],
              fuel : [liters : {NULL, 0, 30}, price_per_liter : {NULL, 14500},
                      total_amount : {NULL, 459900}],
              doc : {NoDocAmounts}, entry : {NoEntry}, expense : {"NULL"}] :
        /\ (c.amounts.subtotal # NULL \/ c.amounts.tax # NULL) =>
              c.amounts.total \in {NULL, 1210000}
        /\ c.fuel.total_amount # NULL =>
              c.amounts.total \in {NULL, c.fuel.total_amount}
        /\ c.doc_type # FUEL_TICKET => c.fuel = NoFuel }

\* validate_and_enrich, lines 121-128: the fuel total, when not read, is
\* liters times price.
EnrichedFuel(fuel) ==
    IF fuel.total_amount = NULL /\ Truthy(fuel.liters)
       /\ Truthy(fuel.price_per_liter)
    THEN [fuel EXCEPT !.total_amount = fuel.liters * fuel.price_per_liter]
    ELSE fuel

\* process_document, lines 152-192: the document's amounts as extracted, the
\* total made up from subtotal and tax when it was not read.
StoredAmounts(amounts) ==
    [subtotal_amount |-> amounts.subtotal,
     tax_amount |-> amounts.tax,
     total_amount |->
        IF amounts.total # NULL THEN amounts.total
        ELSE IF amounts.subtotal # NULL /\ amounts.tax # NULL
        THEN amounts.subtotal + amounts.tax
        ELSE NULL]

\* process_document, lines 194-215: the tax breakdown by document type
Reconciled(doc_type, d) ==
    IF doc_type = FUEL_TICKET
    THEN IF Truthy(d.total_amount) /\ d.tax_amount = NULL
         THEN IF d.subtotal_amount = NULL
              THEN [d EXCEPT !.subtotal_amount = Div121(d.total_amount),
                             !.tax_amount =
                                d.total_amount - Div121(d.total_amount)]
              ELSE [d EXCEPT !.tax_amount =
                                d.total_amount - d.subtotal_amount]
         ELSE d
    ELSE IF Truthy(d.total_amount) /\ d.subtotal_amount = NULL
            /\ d.tax_amount = NULL
         THEN [d EXCEPT !.subtotal_amount = d.total_amount, !.tax_amount = 0]
         ELSE d

\* process_document, lines 244-297: the FuelEntry built from the enriched
\* fuel member, the extracted amounts and the document's reconciled amounts.
FuelEntryOf(doc_type, has_vehicle, amounts, fuel, d) ==
    LET liters == fuel.liters
        price == fuel.price_per_liter
        total == Or(fuel.total_amount, amounts.total)
        total_decimal == IF Truthy(total) THEN total ELSE 0
        fresh == d.subtotal_amount = NULL /\ total_decimal # 0
        subtotal == IF fresh THEN Div121(total_decimal) ELSE d.subtotal_amount
        tax == IF fresh THEN total_decimal - Div121(total_decimal)
               ELSE IF d.tax_amount = NULL /\ Truthy(d.subtotal_amount)
                       /\ total_decimal # 0
               THEN total_decimal - d.subtotal_amount
               ELSE d.tax_amount
    IN  IF /\ doc_type = FUEL_TICKET
           /\ has_vehicle
           /\ Truthy(liters)
           /\ (Truthy(total) \/ (Truthy(liters) /\ Truthy(price)))
        THEN [made |-> TRUE, liters |-> liters,
              price_per_liter |-> IF Truthy(price) THEN price ELSE 0,
              subtotal_amount |-> subtotal, tax_amount |-> tax,
              total_amount |-> total_decimal]
        ELSE NoEntry

\* A run with the extraction in hand, its tables as Init has them.
InitAmounts ==
    /\ vehicle = <<>>
    /\ document = <<>>
    /\ fuel_entry = <<>>
    /\ expense_entry = <<>>
    /\ reminder = <<>>
    /\ pc = [w \in Workers |-> "idle"]
    /\ cur = [w \in Workers |-> 0]
    /\ loaded = [w \in Workers |-> NoDoc]
    /\ uow = [w \in Workers |-> NoUow]
    /\ result = [w \in Workers |-> NoResult]
    /\ batch = {}
    /\ reprocessed = 0
    /\ found = NoFound
    /\ calc \in ShownAmounts
    /\ InitChat
    /\ norm = NoNorm

\* validate_and_enrich
Enrich ==
    /\ calc.stage = "extracted"
    /\ calc' = [calc EXCEPT !.stage = "enriched",
                            !.fuel = EnrichedFuel(calc.fuel)]
    /\ UNCHANGED <<tables, pc, cur, loaded, uow, result, batch,
                   reprocessed, found, chat, norm>>

\* process_document, lines 152-215
Reconcile ==
    /\ calc.stage = "enriched"
    /\ calc' = [calc EXCEPT !.stage = "reconciled",
                            !.doc = Reconciled(calc.doc_type,
                                               StoredAmounts(calc.amounts))]
    /\ UNCHANGED <<tables, pc, cur, loaded, uow, result, batch,
                   reprocessed, found, chat, norm>>

\* process_document, lines 244-297
BuildFuelEntry ==
    /\ calc.stage = "reconciled"
    /\ calc' = [calc EXCEPT !.stage = "derived",
                            !.entry = FuelEntryOf(calc.doc_type, calc.vehicle,
                                                  calc.amounts, calc.fuel,
                                                  calc.doc)]
    /\ UNCHANGED <<tables, pc, cur, loaded, uow, result, batch,
                   reprocessed, found, chat, norm>>

SpecAmounts == InitAmounts /\ [][Enrich \/ Reconcile \/ BuildFuelEntry]_vars

\* --------------------------------------------------- the expense of one run

\* process_document, lines 299-301: the category of the ExpenseEntry built
\* from the document as stored, "NULL" when none is built.  The total is
\* tested for truth.
expense_category(doc_type, vehicle_id, total_amount) ==
    IF /\ DOC_TYPE_TO_EXPENSE_CATEGORY(doc_type) # "NULL"
       /\ vehicle_id
       /\ Truthy(total_amount)
    THEN DOC_TYPE_TO_EXPENSE_CATEGORY(doc_type)
    ELSE "NULL"

BuildExpenseEntry ==
    /\ calc.stage = "derived"
    /\ calc' = [calc EXCEPT !.stage = "expensed",
                            !.expense =
                               expense_category(calc.doc_type, calc.vehicle,
                                                calc.doc.total_amount)]
    /\ UNCHANGED <<tables, pc, cur, loaded, uow, result, batch,
                   reprocessed, found, chat, norm>>

\* Documents of every type, with and without a vehicle, as the vision
\* model may show their amounts; the fuel figures are not read.
InitExpenses ==
    /\ vehicle = <<>>
    /\ document = <<>>
    /\ fuel_entry = <<>>
    /\ expense_entry = <<>>
    /\ reminder = <<>>
    /\ pc = [w \in Workers |-> "idle"]
    /\ cur = [w \in Workers |-> 0]
    /\ loaded = [w \in Workers |-> NoDoc]
    /\ uow = [w \in Workers |-> NoUow]
    /\ result = [w \in Workers |-> NoResult]
    /\ batch = {}
    /\ reprocessed = 0
    /\ found = NoFound
    /\ calc \in
         { c \in [stage : {"extracted"}, doc_type : AllDocTypes,
                   vehicle : BOOLEAN,
                   amounts : [subtotal : SubtotalValues, tax : TaxValues,
                              total : TotalValues],
                   fuel : {NoFuel}, doc : {NoDocAmounts}, entry : {NoEntry},
                   expense : {"NULL"}] :
             (c.amounts.subtotal # NULL \/ c.amounts.tax # NULL) =>
                   c.amounts.total \in {NULL, 1210000} }
    /\ InitChat
    /\ norm = NoNorm

SpecExpenses ==
    /\ InitExpenses
    /\ [][Enrich \/ Reconcile \/ BuildFuelEntry \/ BuildExpenseEntry]_vars

\* ---------------------------------------------------------------- the chat

\* The two actions of the main menu: action_upload_ticket and
\* action_upload_document.
UploadKinds == {"ticket", "document"}

\* str.lower on the characters used here
Lower(c) ==
    CASE c = "A" -> "a"
      [] c = "B" -> "b"
      [] c = "C" -> "c"
      [] c = "S" -> "s"
      [] c = "K" -> "k"
      [] c = "I" -> "i"
      [] c = "P" -> "p"
      [] OTHER -> c

LowerAll(s) == [i \in 1..Len(s) |-> Lower(s[i])]

DigitChars == <<"0", "1", "2", "3", "4", "5", "6", "7", "8", "9">>
Digits == { DigitChars[i] : i \in 1..Len(DigitChars) }

\* str.isalnum(): not empty, letters and digits only
IsAlnum(s) ==
    /\ s # <<>>
    /\ \A i \in 1..Len(s) :
         s[i] \in Digits \cup {"a", "b", "c", "s", "k", "i", "p", "A", "B", "C",
                               "S", "K", "I", "P", "X", "Y", "Z"}

\* int(s) does not raise ValueError: the texts here carry no sign
IsInt(s) == s # <<>> /\ \A i \in 1..Len(s) : s[i] \in Digits

\* int(s)
RECURSIVE IntOf(_)
IntOf(s) ==
    IF s = <<>> THEN 0
    ELSE 10 * IntOf(SubSeq(s, 1, Len(s) - 1))
         + (CHOOSE n \in 0..9 : DigitChars[n + 1] = s[Len(s)])

\* What the user may type: skip, an odometer reading, the plate of the
\* first vehicle as people write it, the plate Guess2, a text too short for
\* a plate and one with a dash in it.
TextSkip == <<"s", "k", "i", "p">>
TextKm == <<" ", "4", "2">>
TextPlate1 == <<"1", "2", "3", "4", " ", "a", "b", "c">>
TextDashed == <<"1", "2", "3", "4", "-", "A", "B">>
ChatTexts ==
    {TextSkip, TextKm, TextPlate1, Guess2, <<"A", "B", "1">>, TextDashed}

\* handle_text_message, line 235: text.strip().upper().replace(" ", "")
TextClean == [t \in ChatTexts |-> RemoveSpaces(UpperAll(Strip(t)))]

\* handle_text_message, lines 274 and 295
ValidPlateText(c) == Len(c) >= PlateTextLen /\ IsAlnum(c)

\* What the vision model reads off the photos sent to the bot: a fuel
\* ticket with or without liters, a policy with or without a due date; no
\* plate and no odometer is read, so a new FuelEntry has no kilometers.
ChatExtractions ==
    { e \in [doc_type : DocTypes, guess : {<<>>}, date_due : {0, MaxDate},
              total : {1}, liters : 0..1, price : {0}] :
        /\ e.doc_type = FUEL_TICKET => e.date_due = 0
        /\ e.doc_type # FUEL_TICKET => e.liters = 0 }

clear_pending_action(s) ==
    [s EXCEPT !.pending_action = "NULL", !.pending_vehicle_id = 0]

clear_pending_state(s) ==
    [s EXCEPT !.pending_action = "NULL", !.pending_vehicle_id = 0,
              !.pending_file = FALSE]

\* callback action_cancel
CallbackCancel ==
    /\ session' = clear_pending_state(session)
    /\ reply' = "cancelada"
    /\ UNCHANGED <<tables, pc, cur, loaded, uow, result, batch, reprocessed,
                   found, calc, norm, buttons, kilometers>>

\* callbacks action_upload_ticket and action_upload_document: ask_for_plate
\* sets the pending action and shows one button per vehicle (the first ten);
\* the pending vehicle and file are left as they are.
ask_for_plate(action) ==
    /\ session' = [session EXCEPT
                     !.pending_action = IF action = "ticket"
                                        THEN "waiting_plate_ticket"
                                        ELSE "waiting_plate_document"]
    /\ buttons' = buttons \cup
                    { [vid |-> v, action |-> action] : v \in 1..Len(vehicle) }
    /\ reply' = "selecciona_vehiculo"
    /\ UNCHANGED <<tables, pc, cur, loaded, uow, result, batch, reprocessed,
                   found, calc, norm, kilometers>>

\* callback sel_v_<id>, a button of /vehiculo
CallbackSelect(v) ==
    /\ session' = [session EXCEPT !.current_vehicle_id = v]
    /\ reply' = "seleccionado"
    /\ UNCHANGED <<tables, pc, cur, loaded, uow, result, batch, reprocessed,
                   found, calc, norm, buttons, kilometers>>

\* callback plate_<vid>_<action>: the vehicle and the action are those of
\* the button pressed, whatever the session holds.
CallbackPlate(b) ==
    /\ b \in buttons
    /\ session' = [session EXCEPT
                     !.pending_vehicle_id = b.vid,
                     !.pending_action = IF b.action = "ticket"
                                        THEN "upload_ticket"
                                        ELSE "upload_document"]
    /\ reply' = "envia_foto"
    /\ UNCHANGED <<tables, pc, cur, loaded, uow, result, batch, reprocessed,
                   found, calc, norm, buttons, kilometers>>

\* order_by(FuelEntry.id.desc()).first()
LatestAsc(E) == CHOOSE i \in E : \A j \in E : i <= j

Latest(E) == CHOOSE i \in E : \A j \in E : j <= i

\* FuelEntry.query.filter_by(vehicle_id=v, kilometers=None)
OdometerLess(v) ==
    { i \in 1..Len(fuel_entry) :
        fuel_entry[i].vehicle_id = v /\ i \notin DOMAIN kilometers }

\* Vehicle.query.filter(Vehicle.plate == c).first(), else a new Vehicle
TypedVehicle(c) ==
    IF VehicleByPlate(c) # 0 THEN VehicleByPlate(c) ELSE Len(vehicle) + 1

handle_text_message(t) ==
    LET c == TextClean[t]
        a == session.pending_action
    IN  IF a = "waiting_km"
        THEN IF LowerAll(c) = TextSkip \/ IsInt(c)
             THEN LET km == IF LowerAll(c) = TextSkip THEN NULL ELSE IntOf(c)
                      E == OdometerLess(session.pending_vehicle_id)
                  IN  /\ kilometers' =
                           IF session.pending_vehicle_id # 0 /\ E # {}
                              /\ km # NULL
                           THEN (Latest(E) :> km) @@ kilometers
                           ELSE kilometers
                      /\ session' = clear_pending_state(session)
                      /\ reply' = IF km # NULL THEN "km_guardados"
                                  ELSE "sin_km"
                      /\ UNCHANGED <<tables, buttons>>
             ELSE /\ reply' = "solo_numero"
                  /\ UNCHANGED <<tables, session, buttons, kilometers>>
        ELSE IF a \in {"waiting_plate_ticket", "waiting_plate_document"}
        THEN IF ValidPlateText(c)
             THEN /\ vehicle' = IF VehicleByPlate(c) # 0 THEN vehicle
                                ELSE Append(vehicle, c)
                  /\ session' = [session EXCEPT
                                   !.pending_vehicle_id = TypedVehicle(c),
                                   !.pending_action =
                                      IF a = "waiting_plate_ticket"
                                      THEN "upload_ticket"
                                      ELSE "upload_document"]
                  /\ reply' = "envia_foto"
                  /\ UNCHANGED <<document, fuel_entry, expense_entry,
                                 reminder, buttons, kilometers>>
             ELSE /\ reply' = "matricula_invalida"
                  /\ UNCHANGED <<tables, session, buttons, kilometers>>
        ELSE IF ValidPlateText(c)
        THEN /\ vehicle' = IF VehicleByPlate(c) # 0 THEN vehicle
                           ELSE Append(vehicle, c)
             /\ session' = [session EXCEPT
                              !.current_vehicle_id = TypedVehicle(c)]
             /\ reply' = "seleccionado"
             /\ UNCHANGED <<document, fuel_entry, expense_entry, reminder,
                            buttons, kilometers>>
        ELSE /\ reply' = "no_entiendo"
             /\ UNCHANGED <<tables, session, buttons, kilometers>>

\* A text message: handle_text_message and nothing else.
TextMessage(t) ==
    /\ handle_text_message(t)
    /\ UNCHANGED <<pc, cur, loaded, uow, result, batch, reprocessed, found,
                   calc, norm>>

\* process_incoming_document, lines 328-374: a photo is turned away when no
\* upload is pending; else the file is downloaded and a pending Document of
\* the pending vehicle and of the sending user is committed.
\* process_document(doc.id) follows.
PhotoMessageAnyAction ==
    /\ Idle("web")
    /\ IF session.pending_vehicle_id = 0
       THEN /\ reply' = "primero_vehiculo"
            /\ UNCHANGED <<document, cur, pc>>
       ELSE /\ Len(document) < MaxDocs
            /\ document' = Append(document,
                              [NoDoc EXCEPT
                                 !.vehicle_id = session.pending_vehicle_id,
                                 !.user_id = ChatUser])
            /\ cur' = [cur EXCEPT !["web"] = Len(document) + 1]
            /\ pc' = [pc EXCEPT !["web"] = "begin"]
            /\ reply' = "procesando"
    /\ UNCHANGED <<vehicle, fuel_entry, expense_entry, reminder, loaded, uow,
                   result, batch, reprocessed, found, calc, norm, session, buttons,
                   kilometers>>

PhotoMessage ==
    /\ Idle("web")
    /\ IF session.pending_action \notin {"upload_ticket", "upload_document"}
       THEN /\ reply' = "primero_accion"
            /\ UNCHANGED <<document, cur, pc>>
       ELSE IF session.pending_vehicle_id = 0
       THEN /\ reply' = "primero_vehiculo"
            /\ UNCHANGED <<document, cur, pc>>
       ELSE /\ Len(document) < MaxDocs
            /\ document' = Append(document,
                              [NoDoc EXCEPT
                                 !.vehicle_id = session.pending_vehicle_id,
                                 !.user_id = ChatUser])
            /\ cur' = [cur EXCEPT !["web"] = Len(document) + 1]
            /\ pc' = [pc EXCEPT !["web"] = "begin"]
            /\ reply' = "procesando"
    /\ UNCHANGED <<vehicle, fuel_entry, expense_entry, reminder, loaded, uow,
                   result, batch, reprocessed, found, calc, norm, session, buttons,
                   kilometers>>

\* process_incoming_document, lines 351-355: get_file returns nothing
PhotoNoFile ==
    /\ Idle("web")
    /\ session.pending_action \in {"upload_ticket", "upload_document"}
    /\ session.pending_vehicle_id # 0
    /\ session' = clear_pending_state(session)
    /\ reply' = "no_descarga"
    /\ UNCHANGED <<tables, pc, cur, loaded, uow, result, batch, reprocessed,
                   found, calc, norm, buttons, kilometers>>

\* process_incoming_document, lines 376-414, once process_document is back:
\* the session row is read again (the commit expired it).  When
\* process_document raised, the handler ends there.
AsksOdometer(s, doc) ==
    s.pending_action = "upload_ticket" /\ doc.doc_type = FUEL_TICKET

PhotoReply ==
    LET r == result["web"]
        doc == document[cur["web"]]
    IN  /\ pc["web"] = "respond"
        /\ IF r.kind = "raised"
           THEN UNCHANGED <<session, reply>>
           ELSE IF r.success /\ AsksOdometer(session, doc)
           THEN /\ session' = [session EXCEPT !.pending_file = TRUE,
                                              !.pending_action = "waiting_km"]
                /\ reply' = "cuantos_km"
           ELSE /\ session' = clear_pending_state(session)
                /\ reply' = IF r.success THEN "resumen" ELSE "error"
        /\ pc' = [pc EXCEPT !["web"] = "idle"]
        /\ cur' = [cur EXCEPT !["web"] = 0]
        /\ result' = [result EXCEPT !["web"] = NoResult]
        /\ UNCHANGED <<tables, loaded, uow, batch, reprocessed, found, calc, norm,
                       buttons, kilometers>>

\* The steps of the processing run a photo started.
PhotoRun ==
    \/ Begin("web")
    \/ ExtractFail("web", MsgException)
    \/ ExtractMalformed("web")
    \/ \E e \in ChatExtractions : ExtractOk("web", e)
    \/ CommitOk("web")
    \/ CommitFail("web")
    \/ PhotoReply

\* run_telegram_polling: the updates of getUpdates are handled one after
\* the other, each to its end.
NextChat ==
    \/ Idle("web") /\ CallbackCancel
    \/ \E action \in UploadKinds : Idle("web") /\ ask_for_plate(action)
    \/ \E v \in 1..Len(vehicle) : Idle("web") /\ CallbackSelect(v)
    \/ \E b \in buttons : Idle("web") /\ CallbackPlate(b)
    \/ \E t \in ChatTexts : Idle("web") /\ TextMessage(t)
    \/ PhotoMessage
    \/ PhotoNoFile
    \/ PhotoRun

SpecChat == Init /\ [][NextChat]_vars

\* The webhook route: every update is a request of its own and the server
\* serves requests side by side, so an update is handled while the handling
\* of a photo is under way.
NextChatConc ==
    \/ CallbackCancel
    \/ \E action \in UploadKinds : ask_for_plate(action)
    \/ \E v \in 1..Len(vehicle) : CallbackSelect(v)
    \/ \E b \in buttons : CallbackPlate(b)
    \/ \E t \in ChatTexts : TextMessage(t)
    \/ PhotoMessage
    \/ PhotoNoFile
    \/ PhotoRun

SpecChatConc == Init /\ [][NextChatConc]_vars

\* ------------------------------------------------- the sweep, scheduled

\* The steps of a request's run of process_document, and of the job's, on
\* complete documents off which no plate is read.
WebRun ==
    \/ Begin("web")
    \/ ExtractFail("web", MsgException)
    \/ \E e \in { x \in CompleteExtractions : x.guess = <<>> } :
          ExtractOk("web", e)
    \/ CommitOk("web")
    \/ CommitFail("web")
    \/ Respond

SweepRun ==
    \/ Begin("sweep")
    \/ ExtractFail("sweep", MsgException)
    \/ \E e \in { x \in CompleteExtractions : x.guess = <<>> } :
          ExtractOk("sweep", e)
    \/ CommitOk("sweep")
    \/ CommitFail("sweep")
    \/ SweepLog
    \/ SweepNext
    \/ SweepExcept
    \/ SweepAbort
    \/ update_reminder_statuses

\* Uploads on the web, each handled to its end, and the scheduler job
\* between them.
\* start_scheduler: the job is run at every interval, and a run under way
\* takes its next step; a request under way does too.  Every call to the
\* vision model and to the store comes back, with a result or an error.
SpecSweep ==
    /\ Init
    /\ [][ \/ \E p \in Plates : Idle("sweep") /\ CreateVehicle(p)
           \/ \E v \in 0..Len(vehicle) : Idle("sweep") /\ Upload(v)
           \/ Idle("web") /\ SweepStart
           \/ WebRun
           \/ SweepRun ]_vars
    /\ WF_vars(Idle("web") /\ SweepStart)
    /\ WF_vars(SweepRun)
    /\ WF_vars(WebRun)

\* ------------------------------------------- typed plates and plate guesses

\* Plates typed in the chat, asked for or not (as people write them, and a
\* text that is no plate), while documents uploaded on the web without a
\* vehicle are processed by the request and by the scheduler job, side by
\* side.  The documents are fuel tickets off which the vision model reads
\* no plate, the plate of either vehicle as it is printed, or a text too
\* short for a plate.  The vision model answers, and the store refuses a
\* commit only for a plate it already holds: a run of the job that fails,
\* fails at its commit.
SpecPlates ==
    /\ Init
    /\ [][ \/ ask_for_plate("ticket")
           \/ \E t \in {TextPlate1, Guess2, TextDashed} : TextMessage(t)
           \/ Upload(0)
           \/ SweepStart
           \/ \E w \in Workers : Begin(w)
           \/ \E w \in Workers,
                 e \in [doc_type : {FUEL_TICKET}, guess : RawGuesses \cup {Guess2},
                        date_due : {0}, total : {1}, liters : {1}, price : {0}] :
                 ExtractOk(w, e)
           \/ \E w \in Workers : CommitOk(w)
           \/ \E w \in Workers : CommitConflict(w)
           \/ Respond
           \/ SweepLog
           \/ SweepNext
           \/ SweepAbort ]_vars

\* ---------------------------------------------------------- the normalisers

\* str.replace(a, b) for single characters
ReplaceChar(s, a, b) == [i \in 1..Len(s) |-> IF s[i] = a THEN b ELSE s[i]]

\* ^\d{1,3}(sep \d{3})* dec \d+$: the two patterns of normalize_amount.
\* After the first n digits every fourth character is sep, the others are
\* digits, and the groups are whole.
Grouped(s, sep, dec) ==
    \E k \in 1..Len(s) :
       /\ s[k] = dec
       /\ k < Len(s)
       /\ IsInt(SubSeq(s, k + 1, Len(s)))
       /\ \E n \in 1..3 :
            /\ n <= k - 1
            /\ (k - 1 - n) % 4 = 0
            /\ \A j \in 1..(k - 1) :
                 IF j > n /\ (j - n) % 4 = 1 THEN s[j] = sep
                 ELSE s[j] \in Digits

\* Decimal(s) for a text of digits, commas, points and minus signs: an
\* optional sign, then digits with at most one point among them; anything
\* else raises InvalidOperation, which normalize_amount turns into None.
py_Decimal(s) ==
    LET neg == s # <<>> /\ Head(s) = "-"
        b == IF neg THEN Tail(s) ELSE s
        points == { i \in 1..Len(b) : b[i] = "." }
        digs == SelectSeq(b, LAMBDA c : c \in Digits)
    IN  IF /\ \A i \in 1..Len(b) : b[i] \in Digits \cup {"."}
           /\ Cardinality(points) <= 1
           /\ digs # <<>>
        THEN PyDecimal(neg, IntOf(digs),
                       IF points = {} THEN 0
                       ELSE Len(b) - (CHOOSE i \in points : TRUE))
        ELSE None

\* normalize_amount: re.sub(r"[^\d,.\-]", "", s) keeps digits, commas,
\* points and minus signs; str.replace(a, "") drops every a.
normalize_amount_plain(value) ==
    IF value.kind = "none" THEN None
    ELSE IF value.kind = "int" THEN PyDecimal(value.neg, value.mant, 0)
    ELSE LET stripped == Strip(value.text)
             s == SelectSeq(stripped,
                            LAMBDA c : c \in Digits \cup {",", ".", "-"})
         IN  IF stripped = <<>> THEN None
             ELSE IF (\E i \in 1..Len(s) : s[i] = ",")
                     /\ ~(\E i \in 1..Len(s) : s[i] = ".")
             THEN py_Decimal(ReplaceChar(s, ",", "."))
             ELSE py_Decimal(s)

normalize_amount(value) ==
    IF value.kind = "none" THEN None
    ELSE IF value.kind = "int" THEN PyDecimal(value.neg, value.mant, 0)
    ELSE LET stripped == Strip(value.text)
             s == SelectSeq(stripped,
                            LAMBDA c : c \in Digits \cup {",", ".", "-"})
         IN  IF stripped = <<>> THEN None
             ELSE IF Grouped(s, ".", ",")
             THEN py_Decimal(ReplaceChar(SelectSeq(s, LAMBDA c : c # "."),
                                         ",", "."))
             ELSE IF Grouped(s, ",", ".")
             THEN py_Decimal(SelectSeq(s, LAMBDA c : c # ","))
             ELSE IF (\E i \in 1..Len(s) : s[i] = ",")
                     /\ ~(\E i \in 1..Len(s) : s[i] = ".")
             THEN py_Decimal(ReplaceChar(s, ",", "."))
             ELSE py_Decimal(s)

NormalizeAmount ==
    /\ norm.stage = "raw"
    /\ norm.fn = "amount"
    /\ norm' = [norm EXCEPT !.out = normalize_amount(norm.arg),
                            !.stage = "done"]
    /\ UNCHANGED <<tables, pc, cur, loaded, uow, result, batch, reprocessed,
                   found, calc, chat>>

\* ------------------------------------------------------- normalize_date

\* The formats tried by normalize_date, in its order: the order of the
\* fields, the separator and the year directive.
formats ==
    << [order |-> "ymd", sep |-> "-", year |-> "Y"],
       [order |-> "dmy", sep |-> "/", year |-> "Y"],
       [order |-> "dmy", sep |-> "-", year |-> "Y"],
       [order |-> "dmy", sep |-> ".", year |-> "Y"],
       [order |-> "dmy", sep |-> "/", year |-> "y"],
       [order |-> "dmy", sep |-> "-", year |-> "y"] >>

\* datetime.strptime(s, fmt): the whole text has to match, and the fields
\* have to name a day of the calendar (year 1 at least); ok is FALSE where
\* strptime raises ValueError.  The text has three fields when it holds the
\* separator exactly twice; the field patterns hold no separator, so a text
\* matches a format in one way at most.  The directives:
\*   %d  3[0-1]|[1-2]\d|0[1-9]|[1-9]| [1-9]
\*   %m  1[0-2]|0[1-9]|[1-9]
\*   %Y  \d\d\d\d
\*   %y  \d\d, 69..99 being 1969..1999 and 0..68 being 2000..2068
strptime(s, fmt) ==
    LET NoDate == [ok |-> FALSE, y |-> 0, m |-> 0, d |-> 0]
        at == { i \in 1..Len(s) : s[i] = fmt.sep }
        i == CHOOSE k \in at : \A l \in at : k <= l
        j == CHOOSE k \in at : \A l \in at : k >= l
        f == << SubSeq(s, 1, i - 1), SubSeq(s, i + 1, j - 1),
                SubSeq(s, j + 1, Len(s)) >>
        fd == IF fmt.order = "ymd" THEN f[3] ELSE f[1]
        fm == f[2]
        fy == IF fmt.order = "ymd" THEN f[1] ELSE f[3]
        y == IF fmt.year = "Y" THEN IntOf(fy)
             ELSE IF IntOf(fy) <= 68 THEN 2000 + IntOf(fy)
             ELSE 1900 + IntOf(fy)
        m == IntOf(fm)
        d == IntOf(SelectSeq(fd, LAMBDA c : c \in Digits))
        leap == y % 4 = 0 /\ (y % 100 # 0 \/ y % 400 = 0)
        days == IF m = 2 THEN (IF leap THEN 29 ELSE 28)
                ELSE IF m \in {4, 6, 9, 11} THEN 30
                ELSE 31
    IN  IF Cardinality(at) # 2 THEN NoDate
        ELSE IF /\ \/ Len(fd) \in 1..2 /\ IsInt(fd) /\ IntOf(fd) \in 1..31
                   \/ Len(fd) = 2 /\ fd[1] = " " /\ fd[2] \in Digits \ {"0"}
                /\ Len(fm) \in 1..2 /\ IsInt(fm) /\ IntOf(fm) \in 1..12
                /\ IsInt(fy)
                /\ Len(fy) = (IF fmt.year = "Y" THEN 4 ELSE 2)
             THEN IF y >= 1 /\ d <= days
                  THEN [ok |-> TRUE, y |-> y, m |-> m, d |-> d]
                  ELSE NoDate
             ELSE NoDate

\* dt.strftime("%Y-%m-%d"): month and day in two digits; the year in four
\* where the C library pads it (pad), and as it is where it does not (the
\* GNU library writes 999 for the year 999).
strftime(dt, pad) ==
    LET RECURSIVE ToDigits(_)
        ToDigits(n) ==
            IF n < 10 THEN <<DigitChars[n + 1]>>
            ELSE ToDigits(n \div 10) \o <<DigitChars[(n % 10) + 1]>>
        RECURSIVE ZeroPad(_, _)
        ZeroPad(t, w) == IF Len(t) >= w THEN t ELSE ZeroPad(<<"0">> \o t, w)
    IN  (IF pad THEN ZeroPad(ToDigits(dt.y), 4) ELSE ToDigits(dt.y))
            \o <<"-">> \o ZeroPad(ToDigits(dt.m), 2)
            \o <<"-">> \o ZeroPad(ToDigits(dt.d), 2)

\* normalize_date: the first format strptime takes; else the first place
\* where (\d{4})-(\d{2})-(\d{2}) matches, as it stands; else the first
\* place where (\d{2})[/.-](\d{2})[/.-](\d{4}) matches, turned around.
normalize_date(value, pad) ==
    IF value.kind = "none" THEN None
    ELSE LET s == Strip(value.text)
             Least(S) == CHOOSE k \in S : \A l \in S : k <= l
             parsed == { k \in 1..Len(formats) : strptime(s, formats[k]).ok }
             iso == { i \in 1..(Len(s) - 9) :
                        /\ IsInt(SubSeq(s, i, i + 3))
                        /\ s[i + 4] = "-"
                        /\ IsInt(SubSeq(s, i + 5, i + 6))
                        /\ s[i + 7] = "-"
                        /\ IsInt(SubSeq(s, i + 8, i + 9)) }
             dayfirst == { i \in 1..(Len(s) - 9) :
                             /\ IsInt(SubSeq(s, i, i + 1))
                             /\ s[i + 2] \in {"/", ".", "-"}
                             /\ IsInt(SubSeq(s, i + 3, i + 4))
                             /\ s[i + 5] \in {"/", ".", "-"}
                             /\ IsInt(SubSeq(s, i + 6, i + 9)) }
         IN  IF s = <<>> THEN None
             ELSE IF parsed # {}
             THEN Str(strftime(strptime(s, formats[Least(parsed)]), pad))
             ELSE IF iso # {}
             THEN Str(SubSeq(s, Least(iso), Least(iso) + 9))
             ELSE IF dayfirst # {}
             THEN LET i == Least(dayfirst)
                  IN  Str(SubSeq(s, i + 6, i + 9) \o <<"-">>
                          \o SubSeq(s, i + 3, i + 4) \o <<"-">>
                          \o SubSeq(s, i, i + 1))
             ELSE None

NormalizeDate ==
    /\ norm.stage = "raw"
    /\ norm.fn = "date"
    /\ norm' = [norm EXCEPT !.out = normalize_date(norm.arg, norm.pad),
                            !.stage = "done"]
    /\ UNCHANGED <<tables, pc, cur, loaded, uow, result, batch, reprocessed,
                   found, calc, chat>>

\* normalize_date applied to a date it returned
NormalizeDateAgain ==
    /\ norm.stage = "done"
    /\ norm.fn = "date"
    /\ norm.out # None
    /\ norm' = [norm EXCEPT !.again = normalize_date(norm.out, norm.pad),
                            !.stage = "again"]
    /\ UNCHANGED <<tables, pc, cur, loaded, uow, result, batch, reprocessed,
                   found, calc, chat>>

\* ------------------------------------------------------ normalize_plate

\* The text of a Python value, None being as falsy as the empty text, and
\* the Python value of a text normalize_plate returned.
TextOf(value) == IF value.kind = "none" THEN <<>> ELSE value.text

ValueOf(t) == IF t = <<>> THEN None ELSE Str(t)

NormalizePlate ==
    /\ norm.stage = "raw"
    /\ norm.fn = "plate"
    /\ norm' = [norm EXCEPT !.out = ValueOf(normalize_plate(TextOf(norm.arg))),
                            !.stage = "done"]
    /\ UNCHANGED <<tables, pc, cur, loaded, uow, result, batch, reprocessed,
                   found, calc, chat>>

\* -------------------------------------- validate_and_enrich, "Matricula"

\* The guess of the record validate_and_enrich returns, from the guess of
\* the raw extraction (None also where the record has no such member:
\* result.get) and the known plate.  A known plate that is not empty wins;
\* else a guess that is not empty is normalised; else the guess stays.
enrich_guess_first(guess, known) ==
    IF TextOf(guess) # <<>> THEN ValueOf(normalize_plate(TextOf(guess)))
    ELSE IF TextOf(known) # <<>> THEN ValueOf(normalize_plate(TextOf(known)))
    ELSE guess

enrich_guess(guess, known) ==
    IF TextOf(known) # <<>> THEN ValueOf(normalize_plate(TextOf(known)))
    ELSE IF TextOf(guess) # <<>> THEN ValueOf(normalize_plate(TextOf(guess)))
    ELSE guess

ValidateAndEnrich ==
    /\ norm.stage = "raw"
    /\ norm.fn = "enrich"
    /\ norm' = [norm EXCEPT !.out = enrich_guess(norm.arg, norm.known),
                            !.stage = "done"]
    /\ UNCHANGED <<tables, pc, cur, loaded, uow, result, batch, reprocessed,
                   found, calc, chat>>

\* ------------------------------------------------- one call of a normaliser

\* The amounts the vision model may write: every text of up to MaxAmountLen
\* of a digit, a point, a comma and a minus sign, the examples of the
\* docstring and of the tests, a text with a currency sign and blanks, one
\* with letters only, None and the integer 100.
AmountInputs ==
    LET texts ==
          UNION { [1..k -> {"1", ".", ",", "-"}] : k \in 0..MaxAmountLen }
          \cup { <<"4", "5", ",", "9", "9">>,
                 <<"4", "5", ".", "9", "9">>,
                 <<"1", ".", "2", "3", "4", ",", "5", "6">>,
                 <<"1", ",", "2", "3", "4", ".", "5", "6">>,
                 <<"1", "2", "3", "4", ",", "5", "6">>,
                 <<"E", " ", "4", "5", ",", "9", "9", " ">>,
                 <<"a", "b", "c">>,
                 <<" ", " ">> }
        args == { Str(t) : t \in texts }
                \cup { None, [None EXCEPT !.kind = "int", !.mant = 100] }
    IN  { [NoNorm EXCEPT !.fn = "amount", !.arg = a, !.stage = "raw"] :
            a \in args }

\* The dates the vision model may write: three fields and two separators
\* in either order, with or without a letter or a blank around them, and
\* texts that are no date at all; on a C library that pads the year and on
\* one that does not.
DateInputs ==
    LET days == { <<"0", "1">>, <<"1">>, <<"3", "1">>, <<"0", "0">> }
        months == { <<"0", "2">>, <<"2">>, <<"1", "3">> }
        years == { <<"2", "0", "2", "4">>, <<"0", "9", "9", "9">>,
                   <<"0", "0", "0", "0">>, <<"2", "4">> }
        seps == {"/", "-", "."}
        texts ==
          { pre \o a \o <<s1>> \o m \o <<s2>> \o b \o post :
              pre \in {<<>>, <<"x">>}, post \in {<<>>, <<"x">>, <<" ">>},
              a \in days \cup years, m \in months, b \in days \cup years,
              s1 \in seps, s2 \in seps }
          \cup { <<>>, <<"i", "n", "v", "a", "l", "i", "d">>, <<" ", " ">> }
        args == { Str(t) : t \in texts } \cup {None}
    IN  { [NoNorm EXCEPT !.fn = "date", !.arg = a, !.stage = "raw",
                         !.pad = p] :
            a \in args, p \in BOOLEAN }

\* The plates normalize_plate may be given: every text of up to MaxPlateLen
\* of a digit, a letter, a blank and a dash, the texts of the tests, a
\* longer plate written with a dash, one with a tab in it, None and the
\* empty text.
PlateInputs ==
    LET texts ==
          UNION { [1..k -> {"1", "a", " ", "-"}] : k \in 0..MaxPlateLen }
          \cup { <<"1", "2", "3", "4", "a", "b", "c">>,
                 <<" ", "1", "2", "3", "4", " ", "A", "B", "C", " ">>,
                 <<"1", "2", "3">>,
                 <<"1", "2", "3", "4", "-", "A", "B", "C">>,
                 <<"1", "2", " ", "3", "4", "\t", "A", "B">> }
        args == { Str(t) : t \in texts } \cup {None}
    IN  { [NoNorm EXCEPT !.fn = "plate", !.arg = a, !.stage = "raw"] :
            a \in args }

\* Guesses of the vision model and plates of the document's vehicle: none,
\* empty, a plate as people write it, a text too short for a plate.
EnrichInputs ==
    LET guesses ==
          { None, Str(<<>>), Str(Guess2), Str(<<"A", "B", "1">>),
            Str(<<"1", "2", "3", "4", " ", "a", "b", "c">>) }
        known ==
          { None, Str(<<>>), Str(<<" ", "1", "2", "3", "4", "a", "b", "c">>),
            Str(<<"1", "2", "3">>) }
    IN  { [NoNorm EXCEPT !.fn = "enrich", !.arg = g, !.known = k,
                         !.stage = "raw"] :
            g \in guesses, k \in known }

InitNormalize ==
    /\ vehicle = <<>>
    /\ document = <<>>
    /\ fuel_entry = <<>>
    /\ expense_entry = <<>>
    /\ reminder = <<>>
    /\ pc = [w \in Workers |-> "idle"]
    /\ cur = [w \in Workers |-> 0]
    /\ loaded = [w \in Workers |-> NoDoc]
    /\ uow = [w \in Workers |-> NoUow]
    /\ result = [w \in Workers |-> NoResult]
    /\ batch = {}
    /\ reprocessed = 0
    /\ found = NoFound
    /\ calc = NoCalc
    /\ InitChat
    /\ \/ norm \in AmountInputs
       \/ norm \in DateInputs
       \/ norm \in PlateInputs
       \/ norm \in EnrichInputs

SpecNormalize ==
    /\ InitNormalize
    /\ [][ \/ NormalizeAmount
           \/ NormalizeDate
           \/ NormalizeDateAgain
           \/ NormalizePlate
           \/ ValidateAndEnrich ]_vars

\* ------------------------------------------------------------- properties

FuelEntriesOf(d) == { i \in 1..Len(fuel_entry) : fuel_entry[i].document_id = d }
ExpenseEntriesOf(d) ==
    { i \in 1..Len(expense_entry) : expense_entry[i].document_id = d }
ActiveRemindersOf(d) ==
    { i \in 1..Len(reminder) :
        reminder[i].document_id = d /\ reminder[i].status = "active" }

\* C1: whatever uploads, processing runs, sweeps and reprocess requests have
\* taken place one after the other, a document has at most one FuelEntry and
\* at most one ExpenseEntry; a reprocess adds no second row.
C1_AtMostOneEntryPerDocument ==
    \A d \in 1..Len(document) :
        /\ Cardinality(FuelEntriesOf(d)) <= 1
        /\ Cardinality(ExpenseEntriesOf(d)) <= 1

\* C2: when two runs of process_document meet on the same pending document
\* (the upload's own run and the sweep's), the document ends with at most
\* one FuelEntry, one ExpenseEntry and one active Reminder.
C2_ConcurrentRunsDeriveOnce ==
    \A d \in 1..Len(document) :
        /\ Cardinality(FuelEntriesOf(d)) <= 1
        /\ Cardinality(ExpenseEntriesOf(d)) <= 1
        /\ Cardinality(ActiveRemindersOf(d)) <= 1

\* C3: in every committed state a processed document has processed_at set
\* and extracted_json present, and a document in error has an error_message.
C3_StatusFieldsPresent ==
    \A d \in 1..Len(document) :
        /\ document[d].status = PROCESSED =>
              document[d].processed_at /\ document[d].extracted_json
        /\ document[d].status = ERROR =>
              document[d].error_message # NoMessage

\* The derived rows uow[w] calls for are in the tables after the step.
DerivedRowsWritten(w) ==
    /\ uow[w].fuel => Len(fuel_entry') = Len(fuel_entry) + 1
    /\ uow[w].expense # "NULL" => Len(expense_entry') = Len(expense_entry) + 1
    /\ \A r \in ReminderWrite(w) :
          /\ r.mode = "insert" => Len(reminder') = Len(reminder) + 1
          /\ r.mode = "update" => reminder'[r.id].due_date = uow[w].rem_due

\* C4: a run that has reached its commit leaves the document processed with
\* every derived row of the run written in the same step, and in error
\* otherwise (at once, or by the hand of the sweep's exception handler).
C4_ProcessedWithRowsOrError ==
    [][\A w \in Workers :
         (pc[w] = "commit" /\ pc'[w] # "commit") =>
            \/ /\ document'[cur[w]].status = PROCESSED
               /\ DerivedRowsWritten(w)
            \/ document'[cur[w]].status = ERROR
            \/ pc'[w] = "except"]_vars

\* C5: when the reminder of a run cannot be persisted the failure is caught,
\* the document still ends processed and the fuel or expense entry of the
\* run is persisted; only the reminder is missing.
C5_ReminderFailureKeepsProcessing ==
    [][\A w \in Workers :
         (/\ pc[w] = "commit" /\ pc'[w] # "commit"
          /\ [mode |-> "insert", id |-> 0] \in ReminderWrite(w)
          /\ reminder' = reminder) =>
            /\ result'[w].kind = "returned"
            /\ document'[cur[w]].status = PROCESSED
            /\ uow[w].fuel => Len(fuel_entry') = Len(fuel_entry) + 1
            /\ uow[w].expense # "NULL" =>
                  Len(expense_entry') = Len(expense_entry) + 1]_vars

C7_NoExceptionEscapes ==
    \A w \in Workers : result[w].kind # "raised"

\* C8: a run that finds its document processed returns success at once:
\* no table changes and the run does not go on to the extraction.
C8_ProcessedShortCircuits ==
    [][\A w \in Workers :
         (/\ pc[w] = "begin" /\ pc'[w] # "begin"
          /\ document[cur[w]].status = PROCESSED) =>
            /\ result'[w] = Returned(TRUE, MsgAlready)
            /\ pc'[w] \notin {"extract", "commit"}
            /\ UNCHANGED tables]_vars

\* A run has returned "Ya estaba procesado".
C8_Witness ==
    \E w \in Workers :
        /\ result[w] = Returned(TRUE, MsgAlready)
        /\ document[cur[w]].status = PROCESSED

\* C9: no document has both a FuelEntry and an ExpenseEntry, a reprocess
\* that reads another document type included.
C9_FuelAndExpenseExclusive ==
    \A d \in 1..Len(document) :
        FuelEntriesOf(d) = {} \/ ExpenseEntriesOf(d) = {}

\* C10: at most one active reminder per (vehicle, kind, source document).
C10_OneActiveReminderPerTriple ==
    \A i \in 1..Len(reminder), j \in 1..Len(reminder) :
        (/\ i # j
         /\ reminder[i].status = "active" /\ reminder[j].status = "active"
         /\ reminder[i].vehicle_id = reminder[j].vehicle_id
         /\ reminder[i].kind = reminder[j].kind) =>
            reminder[i].document_id # reminder[j].document_id

\* The active reminders of the triple (v, k, d) after the step.
ActiveRemindersAfter(v, k, d) ==
    { i \in 1..Len(reminder') :
        /\ reminder'[i].vehicle_id = v
        /\ reminder'[i].kind = k
        /\ reminder'[i].document_id = d
        /\ reminder'[i].status = "active" }

\* C11: a run that upserts the reminder of a triple which already has an
\* active reminder with another due date leaves exactly one active reminder
\* for the triple, carrying the new due date: the existing row is updated
\* in place, no row is inserted and no other row changes.
C11_UpsertUpdatesInPlace ==
    [][\A w \in Workers :
         LET u == uow[w]
             d == cur[w]
             S == ActiveReminders(u.doc.vehicle_id, u.rem_kind, d)
         IN  (/\ pc[w] = "commit" /\ pc'[w] # "commit"
              /\ document[d].status # PROCESSED
              /\ document'[d].status = PROCESSED
              /\ u.rem_kind # "NULL" /\ u.new_plate = <<>>
              /\ S # {}
              /\ \A i \in S : reminder[i].due_date # u.rem_due) =>
                /\ Len(reminder') = Len(reminder)
                /\ \E i \in S :
                      reminder' = [reminder EXCEPT ![i].due_date = u.rem_due]
                /\ Cardinality(ActiveRemindersAfter(u.doc.vehicle_id,
                                                    u.rem_kind, d)) = 1]_vars

\* A run is at its commit with a due date that differs from the one the
\* active reminder of its triple carries.
C11_Witness ==
    \E w \in Workers :
        /\ pc[w] = "commit"
        /\ uow[w].rem_kind # "NULL" /\ uow[w].new_plate = <<>>
        /\ \E i \in ActiveReminders(uow[w].doc.vehicle_id, uow[w].rem_kind,
                                    cur[w]) :
              reminder[i].due_date # uow[w].rem_due

\* C12: a processing run inserts no reminder when the document's type is not
\* insurance policy, itv or tachograph, when the document has no vehicle, or
\* when it has no due date; for the three mapped types with a vehicle and a
\* due date there is, after the run, an active reminder of the mapped kind
\* for the document's vehicle with the document's due date.
C12_ReminderOnlyForMappedTypes ==
    [][(/\ pc["web"] = "commit" /\ pc'["web"] # "commit"
        /\ document'[cur["web"]].status = PROCESSED) =>
          LET d == cur["web"]
              t == document'[d].doc_type
              v == document'[d].vehicle_id
              due == document'[d].due_date
          IN  IF t \notin {"insurance_policy", "itv", "tachograph"}
                 \/ v = 0 \/ due = 0
              THEN reminder' = reminder
              ELSE \E i \in 1..Len(reminder') :
                     reminder'[i] =
                        [vehicle_id |-> v,
                         kind |-> IF t = "insurance_policy"
                                  THEN "insurance" ELSE t,
                         due_date |-> due, status |-> "active",
                         document_id |-> d]]_vars

\* A tachograph document has its reminder, and an insurance policy with a
\* due date and no vehicle has none.
C12_Witness ==
    /\ \E i \in 1..Len(reminder) :
          reminder[i].kind = "tachograph" /\ reminder[i].status = "active"
    /\ \E d \in 1..Len(document) :
          /\ document[d].status = PROCESSED
          /\ document[d].doc_type = "insurance_policy"
          /\ document[d].due_date # 0
          /\ document[d].vehicle_id = 0
          /\ ActiveRemindersOf(d) = {}

\* C15: every extraction reads the plate Guess2 off the document, so a
\* processed document is bound to the vehicle whose plate is Plate2, looked
\* up or created, whatever vehicle the upload had named for it.
C15_GuessedPlateOverrides ==
    \A d \in 1..Len(document) :
        document[d].status = PROCESSED =>
           /\ document[d].vehicle_id # 0
           /\ vehicle[document[d].vehicle_id] = Plate2

\* C13: the expiry sweep sets to expired exactly the reminders that are
\* active with a due date before today and leaves every other reminder and
\* every other table as it was; a second sweep right after it would change
\* nothing.
C13_ExpirySweepExact ==
    [][(pc["sweep"] = "next" /\ pc'["sweep"] = "idle") =>
          /\ Len(reminder') = Len(reminder)
          /\ \A i \in 1..Len(reminder) :
                IF reminder[i].status = "active" /\ reminder[i].due_date < today
                THEN reminder'[i] = [reminder[i] EXCEPT !.status = "expired"]
                ELSE reminder'[i] = reminder[i]
          /\ \A i \in 1..Len(reminder') :
                ~(reminder'[i].status = "active" /\ reminder'[i].due_date < today)
          /\ UNCHANGED <<vehicle, document, fuel_entry, expense_entry>>]_vars

\* The sweep has run: a reminder that was overdue is expired and one that is
\* due today is still active.
C13_Witness ==
    /\ pc["sweep"] = "idle"
    /\ \E i \in 1..Len(reminder) :
          reminder[i].status = "expired" /\ reminder[i].due_date < today
    /\ \E i \in 1..Len(reminder) :
          reminder[i].status = "active" /\ reminder[i].due_date = today
    /\ \A i \in 1..Len(reminder) :
          ~(reminder[i].status = "active" /\ reminder[i].due_date < today)

\* C14: with the scheduler job (its expiry sweep included) running while
\* reminders are created or re-dated, a reminder written for a due date that
\* has not passed is not lost to the sweep (no reminder is expired with a
\* due date of today or later), and no triple (vehicle, kind, document) has
\* two active reminders.
C14_ExpiryConcurrentSafe ==
    /\ \A i \in 1..Len(reminder) :
          reminder[i].status = "expired" => reminder[i].due_date < today
    /\ \A d \in 1..Len(document), v \in 1..Len(vehicle) :
          \A k \in {"insurance", "itv", "tachograph"} :
             Cardinality(ActiveReminders(v, k, d)) <= 1

\* C16: a fuel ticket whose document has come to a vehicle (the one of the
\* guessed plate), with amounts.total = T and no subtotal or tax, liters L
\* and price P, yields a FuelEntry with liters = L, total_amount = T and
\* tax_amount = T - T/1.21.
C16_FuelTicketEntryAmounts ==
    (/\ calc.stage = "derived"
     /\ calc.doc_type = FUEL_TICKET /\ calc.vehicle
     /\ Truthy(calc.amounts.total)
     /\ calc.amounts.subtotal = NULL /\ calc.amounts.tax = NULL
     /\ Truthy(calc.fuel.liters) /\ Truthy(calc.fuel.price_per_liter)) =>
        /\ calc.entry.made
        /\ calc.entry.liters = calc.fuel.liters
        /\ calc.entry.total_amount = calc.amounts.total
        /\ calc.entry.tax_amount =
              calc.amounts.total - Div121(calc.amounts.total)

\* C17: the subtotal, tax and total of a FuelEntry are the reconciled
\* subtotal_amount, tax_amount and total_amount of its document.
C17_EntryAmountsAreDocuments ==
    (calc.stage = "derived" /\ calc.entry.made) =>
        /\ calc.entry.subtotal_amount = calc.doc.subtotal_amount
        /\ calc.entry.tax_amount = calc.doc.tax_amount
        /\ calc.entry.total_amount = calc.doc.total_amount

\* C18: a FuelEntry that has a subtotal and a tax has total = subtotal + tax
\* within 0.01 EUR, whatever amounts, liters and price were read.
C18_EntryTotalIsSum ==
    (/\ calc.stage = "derived" /\ calc.entry.made
     /\ calc.entry.subtotal_amount # NULL /\ calc.entry.tax_amount # NULL) =>
        LET diff == calc.entry.total_amount
                      - (calc.entry.subtotal_amount + calc.entry.tax_amount)
        IN  diff <= 100 /\ 0 - diff <= 100

\* C19: a fuel ticket with a total and neither subtotal nor tax is stored
\* with subtotal = total / 1.21 and tax = total - subtotal, which add up to
\* the total; with a total and a subtotal and no tax it is stored with
\* tax = total - subtotal.
C19_FuelTicketTaxSplit ==
    (/\ calc.stage \in {"reconciled", "derived"}
     /\ calc.doc_type = FUEL_TICKET
     /\ calc.amounts.total # NULL /\ calc.amounts.tax = NULL) =>
        IF calc.amounts.subtotal = NULL
        THEN /\ calc.doc.subtotal_amount = Div121(calc.amounts.total)
             /\ calc.doc.tax_amount =
                   calc.amounts.total - calc.doc.subtotal_amount
             /\ calc.doc.subtotal_amount + calc.doc.tax_amount
                   = calc.doc.total_amount
        ELSE /\ calc.doc.subtotal_amount = calc.amounts.subtotal
             /\ calc.doc.tax_amount =
                   calc.amounts.total - calc.amounts.subtotal

\* C20: a document of another type with a total and neither subtotal nor tax
\* is stored with subtotal = total and tax = 0.
C20_NonFuelTotalIsBase ==
    (/\ calc.stage \in {"reconciled", "derived"}
     /\ calc.doc_type # FUEL_TICKET
     /\ calc.amounts.total # NULL
     /\ calc.amounts.subtotal = NULL /\ calc.amounts.tax = NULL) =>
        /\ calc.doc.subtotal_amount = calc.amounts.total
        /\ calc.doc.tax_amount = 0
        /\ calc.doc.total_amount = calc.amounts.total

\* C21: whatever the document type, when exactly one of subtotal, tax and
\* total is read, the reconciled document has all three amounts and its
\* total is subtotal + tax.
C21_OneAmountGivesTriple ==
    (/\ calc.stage \in {"reconciled", "derived"}
     /\ Cardinality({ k \in {"subtotal", "tax", "total"} :
                        calc.amounts[k] # NULL }) = 1) =>
        /\ calc.doc.subtotal_amount # NULL
        /\ calc.doc.tax_amount # NULL
        /\ calc.doc.total_amount # NULL
        /\ calc.doc.total_amount =
              calc.doc.subtotal_amount + calc.doc.tax_amount
\* The conversation states as the session row holds them.
WaitingPlate(X) ==
    IF X = "ticket" THEN "waiting_plate_ticket" ELSE "waiting_plate_document"

UploadOf(X) == IF X = "ticket" THEN "upload_ticket" ELSE "upload_document"

IdleSession ==
    /\ session.pending_action = "NULL"
    /\ session.pending_vehicle_id = 0
    /\ ~session.pending_file

AwaitingVehicleForAction(X) == session.pending_action = WaitingPlate(X)

UploadReady(X, v) ==
    /\ session.pending_action = UploadOf(X)
    /\ session.pending_vehicle_id = v

AwaitingOdometer(v) ==
    /\ session.pending_action = "waiting_km"
    /\ session.pending_vehicle_id = v

\* C22: while the session awaits the vehicle for action X, pressing a
\* vehicle button, or typing a plate of six or more letters and digits,
\* leaves the session ready for an upload of kind X for that vehicle (the
\* vehicle of the button, the vehicle that has the typed plate, created when
\* there was none).
C22_SelectionMakesUploadReady ==
    [][\A X \in UploadKinds :
         AwaitingVehicleForAction(X) =>
           /\ \A b \in buttons :
                 CallbackPlate(b) =>
                   /\ session'.pending_action = UploadOf(X)
                   /\ session'.pending_vehicle_id = b.vid
           /\ \A t \in ChatTexts :
                 (TextMessage(t) /\ ValidPlateText(TextClean[t])) =>
                   /\ session'.pending_action = UploadOf(X)
                   /\ session'.pending_vehicle_id \in 1..Len(vehicle')
                   /\ vehicle'[session'.pending_vehicle_id] = TextClean[t]]_vars

\* C23: when the handling of a photo ends, for an upload of either kind, the
\* session awaits the odometer of the pending vehicle if the document was
\* processed successfully as a fuel ticket, and is idle with every pending
\* binding cleared on every other outcome, a failed download included.
C23_PhotoOutcomes ==
    [][/\ PhotoNoFile => IdleSession'
       /\ (pc["web"] = "respond" /\ pc'["web"] = "idle") =>
            IF /\ result["web"].kind = "returned"
               /\ result["web"].success
               /\ document[cur["web"]].status = PROCESSED
               /\ document[cur["web"]].doc_type = FUEL_TICKET
            THEN AwaitingOdometer(session.pending_vehicle_id)'
                 /\ session'.pending_vehicle_id = session.pending_vehicle_id
            ELSE IdleSession']_vars

\* C24: while the session awaits the odometer of a vehicle, the text " 42"
\* sets the kilometers of the odometer-less fuel entry of that vehicle with
\* the highest id to 42 and of no other entry, the text skip leaves the
\* kilometers of every entry as they were, and after either the session is
\* idle.
C24_OdometerAnswer ==
    [][\A t \in {TextKm, TextSkip} :
         (/\ session.pending_action = "waiting_km"
          /\ session.pending_vehicle_id # 0
          /\ TextMessage(t)) =>
            LET less == { i \in 1..Len(fuel_entry) :
                            /\ fuel_entry[i].vehicle_id =
                                  session.pending_vehicle_id
                            /\ i \notin DOMAIN kilometers }
            IN  /\ IdleSession'
                /\ fuel_entry' = fuel_entry
                /\ \A i \in 1..Len(fuel_entry) :
                      IF t = TextKm /\ i \in less /\ \A j \in less : j <= i
                      THEN i \in DOMAIN kilometers' /\ kilometers'[i] = 42
                      ELSE /\ i \in DOMAIN kilometers' <=>
                                i \in DOMAIN kilometers
                           /\ i \in DOMAIN kilometers =>
                                kilometers'[i] = kilometers[i]]_vars

\* C24 witness: the odometer typed went to the later of two fuel entries of
\* one vehicle, the earlier one (answered with skip) still has none, and
\* the session is idle.
C24_Witness ==
    /\ IdleSession
    /\ reply = "km_guardados"
    /\ \E i, j \in 1..Len(fuel_entry) :
          /\ j < i
          /\ fuel_entry[i].vehicle_id = fuel_entry[j].vehicle_id
          /\ i \in DOMAIN kilometers /\ kilometers[i] = 42
          /\ j \notin DOMAIN kilometers

\* C25: the cancel button leaves the session idle, with no pending action,
\* vehicle or file, whatever state it was in (an idle session stays as it
\* is), and changes neither the session's current vehicle nor any vehicle,
\* document, fuel entry (its kilometers included), expense entry or
\* reminder.
C25_CancelClearsPendingOnly ==
    [][CallbackCancel =>
         /\ IdleSession'
         /\ session'.current_vehicle_id = session.current_vehicle_id
         /\ IdleSession => session' = session
         /\ UNCHANGED <<tables, kilometers>>]_vars

\* C25 witness: a cancel was the last event, in a session that has a
\* current vehicle and more than cancels behind it: a document was
\* uploaded, and the first fuel entry still waits for its odometer (the
\* cancel came while the bot was asking for it, or later).
C25_Witness ==
    /\ reply = "cancelada"
    /\ IdleSession
    /\ session.current_vehicle_id # 0
    /\ Len(fuel_entry) > 0
    /\ 1 \notin DOMAIN kilometers

\* The pending bindings of the session.
Pending(s) == <<s.pending_action, s.pending_vehicle_id, s.pending_file>>

\* The texts the state of the session expects: the odometer or skip while
\* it awaits the odometer, a plate while it awaits the vehicle.
ExpectedText(t) ==
    \/ /\ session.pending_action = "waiting_km"
       /\ (IsInt(TextClean[t]) \/ LowerAll(TextClean[t]) = TextSkip)
    \/ /\ \E X \in UploadKinds : AwaitingVehicleForAction(X)
       /\ ValidPlateText(TextClean[t])

\* C26: an input the state of the session does not expect leaves the
\* pending action, vehicle and file as they were: a text that is not the
\* expected one, a photo while no upload is ready, and the press of a
\* vehicle button while the session does not await a vehicle.
C26_UnexpectedInputKeepsPending ==
    [][/\ \A t \in ChatTexts :
            (TextMessage(t) /\ ~ExpectedText(t)) =>
               Pending(session') = Pending(session)
       /\ (/\ PhotoMessage
           /\ \A X \in UploadKinds :
                 session.pending_action # UploadOf(X)) =>
              Pending(session') = Pending(session)
       /\ \A b \in buttons :
            (/\ CallbackPlate(b)
             /\ \A X \in UploadKinds : ~AwaitingVehicleForAction(X)) =>
               Pending(session') = Pending(session)]_vars

\* C27: no event of the conversation is handled while the handling of
\* another one is under way: between the steps of the handling of a photo
\* the session row and the bot's last message stay as they are.
C27_EventsSerialized ==
    [][(pc["web"] # "idle" /\ pc'["web"] = pc["web"]) =>
          UNCHANGED <<session, reply>>]_vars

\* C28: a document left in status error is processed again by the next
\* scheduled sweep: when a sweep starts, every document in status error is
\* the document it takes first or is in the batch it goes on with.
C28_SweepRetriesErrors ==
    [][(pc["sweep"] = "idle" /\ pc'["sweep"] # "idle") =>
          \A d \in 1..Len(document) :
             document[d].status = ERROR =>
                d \in batch' \cup {cur'["sweep"]}]_vars

\* C28, as the code has it: a scheduled sweep selects documents in status
\* pending only, so none in status error, and a manual reprocess of a
\* document in status error puts it back to pending and starts a processing
\* run on it.
C28_ErrorRetriedByReprocessOnly ==
    [][/\ (pc["sweep"] = "idle" /\ pc'["sweep"] # "idle") =>
            \A d \in batch' \cup ({cur'["sweep"]} \ {0}) :
               document[d].status = PENDING
       /\ \A d \in 1..Len(document) :
            document[d].status = ERROR =>
              /\ Reprocess(d) =>
                    /\ document'[d].status = PENDING
                    /\ cur'["web"] = d
                    /\ pc'["web"] = "begin"]_vars

\* C28 witness: a sweep is at work on a document while another document,
\* in status error, is neither that document nor in the sweep's batch.
C28_Witness ==
    /\ pc["sweep"] = "extract"
    /\ \E d \in 1..Len(document) :
          /\ document[d].status = ERROR
          /\ cur["sweep"] # d
          /\ d \notin batch

\* C29: a vision answer that is not JSON, or is JSON of the wrong shape (not
\* an object, or an object with members of the wrong shape), is handled as
\* a failed extraction: the run returns failure, the document is stored
\* with status error, and no fuel entry, expense entry or reminder is
\* written.
C29_MalformedAnswerIsFailure ==
    [][(\/ ExtractFail("web", MsgException)
        \/ ExtractOk("web", NotAnObject)
        \/ ExtractMalformed("web")) =>
          /\ result'["web"].kind = "returned"
          /\ ~result'["web"].success
          /\ document'[cur["web"]].status = ERROR
          /\ UNCHANGED <<fuel_entry, expense_entry, reminder>>]_vars

\* The document types get_missing_critical_fields asks a due date of.
ComplianceTypes == {"insurance_policy", "itv", "tachograph"}

\* get_missing_critical_fields: what the advisory list is about.  Every
\* extraction of the model carries an issue date.
get_missing_fields_dates_only(e, doc_type, vehicle_id) ==
    (IF vehicle_id = 0 THEN {"vehicle"} ELSE {})
    \cup (IF e.doc_type \in ComplianceTypes /\ e.date_due = 0
          THEN {"date_due"} ELSE {})

get_missing_critical_fields(e, doc_type, vehicle_id) ==
    (IF vehicle_id = 0 THEN {"vehicle"} ELSE {})
    \cup (IF e.doc_type = FUEL_TICKET /\ e.liters = 0
          THEN {"liters"} ELSE {})
    \cup (IF e.doc_type \in ComplianceTypes /\ e.date_due = 0
          THEN {"date_due"} ELSE {})

\* C30: for a fuel ticket read without liters, and for an insurance policy,
\* ITV or tachograph document read without a due date, the run goes on to a
\* document of status processed, the advisory list of missing critical
\* fields is not empty, and the commit of the run writes no fuel entry
\* (respectively no reminder).
C30_MissingFieldIsNoError ==
    [][/\ \A e \in TypedExtractions :
            LET no_liters == e.doc_type = FUEL_TICKET /\ e.liters = 0
                no_due == e.doc_type \in ComplianceTypes /\ e.date_due = 0
            IN  (ExtractOk("web", e) /\ (no_liters \/ no_due)) =>
                  /\ uow'["web"].doc.status = PROCESSED
                  /\ get_missing_critical_fields(
                        e, uow'["web"].doc.doc_type,
                        uow'["web"].doc.vehicle_id) # {}
                  /\ no_liters => ~uow'["web"].fuel
                  /\ no_due => uow'["web"].rem_kind = "NULL"
       /\ CommitOk("web") =>
            /\ document'[cur["web"]].status = uow["web"].doc.status
            /\ result'["web"] = Returned(TRUE, MsgOk)
            /\ ~uow["web"].fuel => fuel_entry' = fuel_entry
            /\ uow["web"].rem_kind = "NULL" => reminder' = reminder]_vars

\* C30 witness: the upload of a fuel ticket of a vehicle, with its total
\* read, has ended in success with the document processed and no fuel
\* entry of it: the liters were not read.
C30_Witness ==
    /\ pc["web"] = "respond"
    /\ result["web"] = Returned(TRUE, MsgOk)
    /\ LET doc == document[cur["web"]]
       IN  /\ doc.status = PROCESSED
           /\ doc.doc_type = FUEL_TICKET
           /\ doc.vehicle_id # 0
           /\ doc.total_amount = 1
           /\ FuelEntriesOf(cur["web"]) = {}

\* C31: normalize_amount returns a Decimal or None for every input.  A text
\* grouped the European way (1.234,56) gives its digits with the comma as
\* the decimal point, a text grouped the Anglo way (1,234.56) its digits
\* with the point as the decimal point, a bare comma decimal (1234,56) the
\* same with the comma; None, an empty or blank text, a text without a
\* digit and a text with a minus sign after its first character give None.
\* (s is the amount text without the characters that are dropped, and
\* AmountValue the number a text with the decimal sign dec stands for: its
\* digits, with as many decimal places as there are characters after dec.)
C31_NormalizeAmount ==
    (norm.fn = "amount" /\ norm.stage = "done") =>
       /\ norm.out.kind \in {"none", "decimal"}
       /\ norm.arg.kind = "none" => norm.out = None
       /\ norm.arg.kind = "str" =>
            LET s == SelectSeq(Strip(norm.arg.text),
                               LAMBDA c : c \in Digits \cup {",", ".", "-"})
                digits == SelectSeq(s, LAMBDA c : c \in Digits)
                AmountValue(t, dec) ==
                    PyDecimal(FALSE, IntOf(digits),
                              Len(t) - (CHOOSE k \in 1..Len(t) :
                                          /\ t[k] = dec
                                          /\ IsInt(SubSeq(t, k + 1,
                                                              Len(t)))))
            IN  /\ Grouped(s, ".", ",") => norm.out = AmountValue(s, ",")
                /\ Grouped(s, ",", ".") => norm.out = AmountValue(s, ".")
                /\ (\E k \in 2..(Len(s) - 1) :
                       /\ s[k] = ","
                       /\ IsInt(SubSeq(s, 1, k - 1))
                       /\ IsInt(SubSeq(s, k + 1, Len(s)))) =>
                      norm.out = AmountValue(s, ",")
                /\ Strip(norm.arg.text) = <<>> => norm.out = None
                /\ digits = <<>> => norm.out = None
                /\ (\E k \in 2..Len(s) : s[k] = "-") => norm.out = None

\* C31 witness: 1.234,56 was normalised to 1234.56.
C31_Witness ==
    /\ norm.fn = "amount"
    /\ norm.stage = "done"
    /\ norm.arg = Str(<<"1", ".", "2", "3", "4", ",", "5", "6">>)
    /\ norm.out = PyDecimal(FALSE, 123456, 2)

\* C32: normalize_date applied to a date it returned gives that date again;
\* the day-first texts 01/02/2024 and 01-02-2024 give 2024-02-01; None, an
\* empty text and a text that holds no date give None.
C32_DateIdempotent ==
    norm.fn = "date" =>
      /\ norm.stage = "again" => norm.again = norm.out
      /\ /\ norm.stage \in {"done", "again"}
         /\ \E c \in {"/", "-"} :
               norm.arg = Str(<<"0", "1", c, "0", "2", c, "2", "0", "2", "4">>)
         => norm.out = Str(<<"2", "0", "2", "4", "-", "0", "2", "-", "0", "1">>)
      /\ /\ norm.stage = "done"
         /\ norm.arg \in { None, Str(<<>>),
                           Str(<<"i", "n", "v", "a", "l", "i", "d">>) }
         => norm.out = None

\* C33: normalize_plate returns the text in upper case with all whitespace
\* removed when that is six or more letters and digits, and None for every
\* other input: None, the empty text, a shorter text, a text holding a
\* character that is neither letter nor digit.
C33_NormalizePlate ==
    norm.fn = "plate" /\ norm.stage = "done" =>
      LET clean == SelectSeq(UpperAll(TextOf(norm.arg)),
                             LAMBDA c : c \notin Whitespace)
      IN  IF Len(clean) >= MinPlateLen /\ IsAlnum(clean)
          THEN norm.out = Str(clean)
          ELSE norm.out = None

C35_PlatesUnique ==
    \A i, j \in 1..Len(vehicle) : vehicle[i] = vehicle[j] => i = j

\* C35 witness: the plate 5678XYZ was typed in the chat and read off a
\* document uploaded without a vehicle; there is one Vehicle row, the
\* session and the processed document both name it.
C35_Witness ==
    /\ vehicle = <<Plate2>>
    /\ session.pending_vehicle_id = 1
    /\ \E d \in 1..Len(document) :
          document[d].status = PROCESSED /\ document[d].vehicle_id = 1

\* C36: a run builds an ExpenseEntry exactly when the document's type is in
\* the expense mapping, the document has a vehicle and its total amount
\* exists; the category is the image of the type (insurance policy to
\* insurance, inspection to inspection, workshop invoice to workshop, tires
\* invoice to tires); a fuel ticket and a document of type other give none.
C36_ExpenseExactlyWhenMapped ==
    calc.stage = "expensed" =>
      LET t == calc.doc_type
          image == CASE t = "insurance_policy" -> "insurance"
                     [] t = "itv" -> "itv"
                     [] t = "workshop_invoice" -> "workshop"
                     [] t = "tires_invoice" -> "tires"
                     [] OTHER -> DOC_TYPE_TO_EXPENSE_CATEGORY(t)
      IN  /\ calc.expense # "NULL" <=>
                /\ DOC_TYPE_TO_EXPENSE_CATEGORY(t) # "NULL"
                /\ calc.vehicle
                /\ calc.doc.total_amount # NULL
          /\ calc.expense # "NULL" => calc.expense = image
          /\ t \in {FUEL_TICKET, "other"} => calc.expense = "NULL"

C38_OdometerOnUploadedTicket ==
    [][\A i \in DOMAIN kilometers' :
          (i \notin DOMAIN kilometers \/ kilometers'[i] # kilometers[i]) =>
             fuel_entry[i].document_id = Len(document)]_vars

\* C39: a photo that arrives while the session is not ready for an upload
\* with a pending vehicle makes no Document, starts no extraction and
\* changes no field of the session; every Document made from the chat has
\* the session's pending vehicle and the sending user.
C39_PhotoNeedsUploadReady ==
    [][/\ (/\ PhotoMessage
           /\ ~(\E X \in UploadKinds :
                   /\ UploadReady(X, session.pending_vehicle_id)
                   /\ session.pending_vehicle_id # 0)) =>
             /\ document' = document
             /\ pc' = pc
             /\ session' = session
       /\ Len(document') > Len(document) =>
             /\ session.pending_vehicle_id # 0
             /\ \E X \in UploadKinds :
                   UploadReady(X, document'[Len(document')].vehicle_id)
             /\ document'[Len(document')].user_id = ChatUser
             /\ Len(document') = Len(document) + 1]_vars

\* C39 witness: a photo sent while the bot waits for the odometer was
\* turned away: the session still waits, and the one document is the ticket.
C39_Witness ==
    /\ reply = "primero_accion"
    /\ session.pending_action = "waiting_km"
    /\ session.pending_vehicle_id # 0
    /\ Len(document) = 1
    /\ pc["web"] = "idle"

\* C40: with the job run at every interval and every external call coming
\* back, a document in status pending is in the end processed or in error;
\* and a run of the job ends only when it has been through its whole
\* batch, whatever happened to one document of it.
C40_PendingEventuallySettled ==
    /\ \A d \in 1..MaxDocs :
          (d <= Len(document) /\ document[d].status = PENDING)
             ~> (d <= Len(document)
                 /\ document[d].status \in {PROCESSED, ERROR})
    /\ [][(pc["sweep"] # "idle" /\ pc'["sweep"] = "idle") => batch = {}]_vars
====
